---- MODULE Spec2Model ----
(***************************************************************************)
(* GamePainter (painter.py) and its MCP tool server (server.py).            *)
(*                                                                         *)
(* A canvas (GamePainter) owns a PIL image.  The image is modelled by what  *)
(* the repository does to it: the size and background given to Image.new,  *)
(* followed by the ordered list of raster-layer calls (ImageDraw.rectangle, *)
(* ImageDraw.line, ..., Image.putpixel) issued on it, each with the exact   *)
(* arguments the code passes.  Pixels are read back (getpixel) by replaying *)
(* that list, where the pixels of the calls follow from their arguments     *)
(* (rectangles, thin straight lines, putpixel, paste).  Python's None is    *)
(* the empty tuple << >>; a colour is a tuple of 3 or 4 channel values; a   *)
(* point is a pair <<x, y>>.                                                *)
(***************************************************************************)
EXTENDS Integers, Sequences, FiniteSets, TLC

VARIABLES
    canvas_storage,   \* server.py: canvas_id -> GamePainter (a function whose DOMAIN is the keys)
    response,         \* server.py: what the last call_tool returned
    ndraws,           \* number of pen draw calls that reached a canvas (bounded exploration)
    painter,          \* a GamePainter held directly by a caller of painter.py
    args,             \* the arguments of the painter.py call under way
    pc,               \* position of that call
    original_color,   \* pen_fill local
    queue,            \* pen_fill local (deque)
    visited           \* pen_fill local (set)

vars == <<canvas_storage, response, ndraws, painter, args, pc,
          original_color, queue, visited>>

serverVars == <<canvas_storage, response, ndraws>>
libVars == <<painter, args, pc, original_color, queue, visited>>

None == << >>

\* An optional argument of a tool call: << >> when the key is absent, <<v>> when given.
Get(opt, default) == IF opt = << >> THEN default ELSE opt[1]

\* Python truthiness of an optional tuple-valued argument (absent and [] are both falsy).
Truthy(opt) == opt # << >> /\ opt[1] # << >>

Max(a, b) == IF a >= b THEN a ELSE b
Min(a, b) == IF a <= b THEN a ELSE b

\* Python int(): truncation toward zero of the rational n / d (d > 0).
IntDiv(n, d) == IF n >= 0 THEN n \div d ELSE -((-n) \div d)

\* A call that ends by raising: the exception, and the canvas as the call leaves it.
Raise(exception, p) == [raises |-> exception, painter |-> p]

Raised(r) == "raises" \in DOMAIN r

\* The statement Op runs on the canvas r that the statement before it has left, unless
\* that statement raised.
Then(r, Op(_)) == IF Raised(r) THEN r ELSE Op(r)

\* **kwargs: the record of the keyword arguments a caller gives, << >> when it gives none.
Has(kwargs, key) == kwargs # << >> /\ key \in DOMAIN kwargs

Kw(kwargs, key, default) == IF Has(kwargs, key) THEN kwargs[key] ELSE default

Keys(kwargs) == IF kwargs = << >> THEN {} ELSE DOMAIN kwargs

\* What a create_* function gives its caller once the drawing call on the new canvas has
\* ended: the canvas, or the exception without a canvas.
Created(r) == IF Raised(r) THEN Raise(r.raises, None) ELSE r

\* A call on the canvas the caller holds has ended: the canvas is as the call left it.
Called(r) ==
    IF Raised(r)
    THEN painter' = r.painter /\ pc' = "raised"
    ELSE painter' = r /\ pc' = "done"

\* A create_* call has ended: the caller holds the new canvas, or none.
Made(r) ==
    IF Raised(r)
    THEN pc' = "raised" /\ UNCHANGED painter
    ELSE painter' = r /\ pc' = "done"

---------------------------------------------------------------------------
(* Python floats.  A float is a binary64 value; +, -, *, / and the int / int division  *)
(* round the exact result to the nearest value, ties to the even mantissa.  Mantissas  *)
(* have 53 bits, so they are kept as naturals of any size: little-endian sequences of  *)
(* limbs below Base, without a high zero limb.                                         *)

Base == 2 ^ 15

RECURSIVE BTrim(_)
BTrim(a) == IF a = << >> \/ a[Len(a)] # 0 THEN a ELSE BTrim(SubSeq(a, 1, Len(a) - 1))

RECURSIVE BCarry(_, _)
BCarry(a, c) ==
    IF a = << >> THEN (IF c = 0 THEN << >> ELSE <<c % Base>> \o BCarry(<< >>, c \div Base))
    ELSE <<(a[1] + c) % Base>> \o BCarry(Tail(a), (a[1] + c) \div Base)

BLimb(a, i) == IF i <= Len(a) THEN a[i] ELSE 0

BFromInt(n) == BCarry(<< >>, n)

RECURSIVE BToInt(_)
BToInt(a) == IF a = << >> THEN 0 ELSE a[1] + Base * BToInt(Tail(a))

BAdd(a, b) == BCarry([i \in 1 .. Max(Len(a), Len(b)) |-> BLimb(a, i) + BLimb(b, i)], 0)

\* a - b for a >= b
BSub(a, b) == BTrim(BCarry([i \in 1 .. Len(a) |-> a[i] - BLimb(b, i)], 0))

BMulSmall(a, k) == BTrim(BCarry([i \in 1 .. Len(a) |-> a[i] * k], 0))

RECURSIVE BMul(_, _)
BMul(a, b) ==
    IF a = << >> \/ b = << >> THEN << >>
    ELSE BTrim(BAdd(BMulSmall(a, b[1]), <<0>> \o BMul(a, Tail(b))))

RECURSIVE BPow(_, _)
BPow(a, k) == IF k = 0 THEN <<1>> ELSE BMul(a, BPow(a, k - 1))

\* quotient and remainder of a by d, 0 < d < 2^16
RECURSIVE BDivRem(_, _)
BDivRem(a, d) ==
    IF a = << >> THEN [q |-> << >>, r |-> 0]
    ELSE LET hi == BDivRem(Tail(a), d)
             v == hi.r * Base + a[1]
         IN  [q |-> <<v \div d>> \o hi.q, r |-> v % d]

BShl(a, n) ==
    IF a = << >> \/ n = 0 THEN a
    ELSE [i \in 1 .. n \div 15 |-> 0] \o BMulSmall(a, 2 ^ (n % 15))

BShr(a, n) ==
    IF n = 0 THEN a
    ELSE IF n \div 15 >= Len(a) THEN << >>
    ELSE BTrim(BDivRem(SubSeq(a, n \div 15 + 1, Len(a)), 2 ^ (n % 15)).q)

RECURSIVE BitLen(_)
BitLen(n) == IF n = 0 THEN 0 ELSE 1 + BitLen(n \div 2)

BBitLen(a) == IF a = << >> THEN 0 ELSE 15 * (Len(a) - 1) + BitLen(a[Len(a)])

\* -1, 0, 1 as a < b, a = b, a > b
RECURSIVE BCmpFrom(_, _, _)
BCmpFrom(a, b, i) ==
    IF i = 0 THEN 0
    ELSE IF a[i] # b[i] THEN (IF a[i] < b[i] THEN -1 ELSE 1)
    ELSE BCmpFrom(a, b, i - 1)

BCmp(a, b) ==
    IF Len(a) # Len(b) THEN (IF Len(a) < Len(b) THEN -1 ELSE 1) ELSE BCmpFrom(a, b, Len(a))

\* the number of low zero bits of a > 0
RECURSIVE LowZeros(_)
LowZeros(n) == IF n % 2 = 1 THEN 0 ELSE 1 + LowZeros(n \div 2)

RECURSIVE BLowZeros(_)
BLowZeros(a) == IF a[1] # 0 THEN LowZeros(a[1]) ELSE 15 + BLowZeros(Tail(a))

\* A float: sign s, odd mantissa m of at most 53 bits, exponent e; its value is
\* s * m * 2^e, and zero has the empty mantissa.  (The values here stay far from the
\* largest and the smallest binary64 magnitudes.)
FZero == [s |-> 1, m |-> << >>, e |-> 0]

FCanonAt(s, m, e, z) == [s |-> s, m |-> BShr(m, z), e |-> e + z]

FCanon(s, m, e) == IF m = << >> THEN FZero ELSE FCanonAt(s, m, e, BLowZeros(m))

\* s * m * 2^e rounded to the nearest float, ties to even: h is the 53 bits kept with
\* the first bit dropped after them (sh bits are dropped in all), q the 53 bits kept, and
\* the mantissa grows by one when the first dropped bit is set and either a lower bit is
\* set too or the kept mantissa is odd
FRoundKept(s, m, e, sh, h, q) ==
    FCanon(s,
           IF h[1] % 2 = 1 /\ (BLowZeros(m) < sh - 1 \/ q[1] % 2 = 1) THEN BAdd(q, <<1>>) ELSE q,
           e + sh)

FRoundHalf(s, m, e, sh, h) == FRoundKept(s, m, e, sh, h, BShr(h, 1))

FRoundBy(s, m, e, sh) ==
    IF sh <= 0 THEN FCanon(s, m, e) ELSE FRoundHalf(s, m, e, sh, BShr(m, sh - 1))

FRound(s, m, e) == FRoundBy(s, m, e, BBitLen(m) - 53)

\* s * m * 2^e if it is a float, else the float next to it toward zero (up = FALSE) or
\* away from zero (up = TRUE)
FRoundToBy(s, m, e, up, sh) ==
    IF sh <= 0 \/ BLowZeros(m) >= sh THEN FCanon(s, m, e)
    ELSE FCanon(s, IF up THEN BAdd(BShr(m, sh), <<1>>) ELSE BShr(m, sh), e + sh)

FRoundTo(s, m, e, up) == FRoundToBy(s, m, e, up, BBitLen(m) - 53)

\* float(n) of an int
FInt(n) == FCanon(IF n >= 0 THEN 1 ELSE -1, BFromInt(IF n >= 0 THEN n ELSE -n), 0)

FNeg(a) == IF a.m = << >> THEN a ELSE [a EXCEPT !.s = -a.s]

\* a * b
FMul(a, b) ==
    IF b.m = << >> \/ a.m = << >> THEN FZero
    ELSE FRound(a.s * b.s, BMul(a.m, b.m), a.e + b.e)

\* a + b: the mantissas x and y brought to the lower exponent e, c their comparison, and
\* their sum or their difference rounded
FAddCompared(a, b, e, x, y, c) ==
    IF a.s # b.s /\ c = 0 THEN FZero
    ELSE FRound(IF a.s = b.s \/ c > 0 THEN a.s ELSE b.s,
                IF a.s = b.s THEN BAdd(x, y) ELSE IF c > 0 THEN BSub(x, y) ELSE BSub(y, x),
                e)

FAddAligned(a, b, e, x, y) == FAddCompared(a, b, e, x, y, BCmp(x, y))

FAddAt(a, b, e) == FAddAligned(a, b, e, BShl(a.m, a.e - e), BShl(b.m, b.e - e))

FAdd(a, b) ==
    IF a.m = << >> THEN b
    ELSE IF b.m = << >> THEN a
    ELSE FAddAt(a, b, Min(a.e, b.e))

\* n / d of two ints, 0 < |d| < 2^16: the quotient to 55 bits and more (k bits), with a
\* last bit that tells whether anything is left over, then rounded
FDivRounded(n, d, k, qr) ==
    FRound(IF (n >= 0) = (d > 0) THEN 1 ELSE -1,
           BAdd(BMulSmall(BTrim(qr.q), 2), IF qr.r = 0 THEN << >> ELSE <<1>>),
           -k - 1)

FDivBy(n, d, an, ad, k) == FDivRounded(n, d, k, BDivRem(BShl(BFromInt(an), k), ad))

FDivAbs(n, d, an, ad) == FDivBy(n, d, an, ad, 55 + BitLen(ad))

FDiv(n, d) ==
    IF n = 0 THEN FZero
    ELSE FDivAbs(n, d, IF n >= 0 THEN n ELSE -n, IF d >= 0 THEN d ELSE -d)

\* a ** k for an int k >= 0, which Python hands to the C library's pow: the power itself
\* when it is a float, else one of the two floats around it, the one the library picks
\* (up) being its own matter.
FPow(a, k, up) ==
    IF k = 0 THEN FInt(1)
    ELSE IF a.m = << >> THEN FZero
    ELSE FRoundTo(IF k % 2 = 0 THEN 1 ELSE a.s, BPow(a.m, k), a.e * k, up)

\* int(a): truncation toward zero
FTrunc(a) ==
    IF a.m = << >> THEN 0
    ELSE IF a.e >= 0 THEN a.s * BToInt(BShl(a.m, a.e))
    ELSE a.s * BToInt(BShr(a.m, -a.e))

---------------------------------------------------------------------------
(* Colours *)

TRANSPARENT == <<0, 0, 0, 0>>
BLACK == <<0, 0, 0, 255>>
RED == <<255, 0, 0, 255>>
RED3 == <<255, 0, 0>>
BLUE == <<0, 0, 255, 255>>

_ensure_rgba_keep3(color) == color

_ensure_rgba(color) ==
    IF Len(color) = 3 THEN color \o <<255>>
    ELSE SubSeq(color, 1, Min(4, Len(color)))

---------------------------------------------------------------------------
(* The PIL image: Image.new, the raster-layer calls, getpixel / putpixel *)

\* One call on the raster layer, with the arguments the code passes.
RasterCall(op, xy, fill, outline, width, extra) ==
    [op |-> op, xy |-> xy, fill |-> fill, outline |-> outline, width |-> width,
     extra |-> extra]

\* Image.new("RGBA", (width, height), bg_color) raises ValueError on a negative size.
Image_new_raises(width, height) == width < 0 \/ height < 0

\* A 3-component ink on an RGBA image gets alpha 255.  seen holds what has been read of
\* the pixels that the rasteriser decides: <<pixel, n, colour>> says that the pixel had
\* the colour after the first n calls.
Image_new(width, height, bg_color) ==
    [size |-> <<width, height>>,
     bg |-> IF Len(bg_color) = 3 THEN bg_color \o <<255>> ELSE bg_color,
     ops |-> << >>,
     seen |-> {}]

Raster(image, call) == [image EXCEPT !.ops = Append(@, call)]

\* The pixels a raster call is known to set, and to what.  ImageDraw.rectangle
\* takes an inclusive box, paints the fill and then the outline ring of the given width.
InBox(xy, x, y) == xy[1][1] <= x /\ x <= xy[2][1] /\ xy[1][2] <= y /\ y <= xy[2][2]

OnRing(xy, width, x, y) ==
    /\ InBox(xy, x, y)
    /\ \/ x < xy[1][1] + width \/ x > xy[2][1] - width
       \/ y < xy[1][2] + width \/ y > xy[2][2] - width

\* The mask of Image.paste here is a rounded rectangle drawn on an "L" image: all of the
\* box for radius 0; for a larger radius the pixels outside the four corner squares (the
\* pixels inside them depend on the rasteriser and are read as not covered).
MaskCovers(xy, radius, x, y) ==
    /\ InBox(xy, x, y)
    /\ \/ radius <= 0
       \/ (xy[1][1] + radius <= x /\ x <= xy[2][1] - radius)
       \/ (xy[1][2] + radius <= y /\ y <= xy[2][2] - radius)

\* ImageDraw.line of width 0 or 1 goes from point to point by Bresenham's algorithm and
\* sets the last point too: for a horizontal, a vertical or a 45 degree segment these are
\* the grid points of the segment, both ends included.
OnSegment(a, b, x, y) ==
    /\ Min(a[1], b[1]) <= x /\ x <= Max(a[1], b[1])
    /\ Min(a[2], b[2]) <= y /\ y <= Max(a[2], b[2])
    /\ (x - a[1]) * (b[2] - a[2]) = (y - a[2]) * (b[1] - a[1])

Straight(a, b) ==
    \/ a[1] = b[1]
    \/ a[2] = b[2]
    \/ b[1] - a[1] = b[2] - a[2]
    \/ b[1] - a[1] = a[2] - b[2]

ThinLine(call) ==
    /\ call.op = "line"
    /\ call.width \in {0, 1}
    /\ Len(call.xy) >= 2
    /\ \A i \in 1 .. Len(call.xy) - 1 : Straight(call.xy[i], call.xy[i + 1])

\* The raster calls whose pixels follow from their arguments alone.  What the
\* rasteriser makes of a slanted or wide line, an ellipse, an arc, a polygon, a rounded
\* rectangle, a text or a pasted drawing is its own matter: these calls set pixels within
\* their reach, and which ones shows when a pixel is read.
Rasterised(call) == call.op \in {"putpixel", "rectangle", "paste"} \/ ThinLine(call)

\* The call sets pixel (x, y); defined for the Rasterised calls only.
Paints(call, x, y) ==
    CASE call.op = "putpixel" -> call.xy = <<<<x, y>>>>
      [] call.op = "rectangle" ->
            \/ call.fill # None /\ InBox(call.xy, x, y)
            \/ call.outline # None /\ call.width # 0 /\ OnRing(call.xy, call.width, x, y)
      [] call.op = "paste" -> MaskCovers(call.xy, call.extra[3], x, y)
      [] ThinLine(call) ->
            \E i \in 1 .. Len(call.xy) - 1 : OnSegment(call.xy[i], call.xy[i + 1], x, y)

\* The pixel Image.paste(gradient_img, (x, y), gradient_img) writes where the mask is 255:
\* the pixel of gradient_img, whose alpha band putalpha(mask) has replaced by the mask.
\* gradient_img holds one colour per row (vertical), column (horizontal) or anti-diagonal
\* (diagonal), and stays (0, 0, 0, 0) where no line was drawn.
PasteInk(call, x, y) ==
    LET dx == x - call.xy[1][1]
        dy == y - call.xy[1][2]
        direction == call.extra[1]
        colours == call.extra[2]
        i == CASE direction = "vertical" -> dy
               [] direction = "horizontal" -> dx
               [] direction = "diagonal" -> dx + dy
               [] OTHER -> -1
        drawn == IF i >= 0 /\ i < Len(colours) THEN colours[i + 1] ELSE <<0, 0, 0, 0>>
    IN  <<drawn[1], drawn[2], drawn[3], 255>>

Ink(call, x, y) ==
    IF call.op = "paste" THEN PasteInk(call, x, y)
    ELSE IF call.op = "rectangle" /\ call.outline # None /\ call.width # 0
            /\ call.outline # call.fill /\ OnRing(call.xy, call.width, x, y)
    THEN call.outline
    ELSE call.fill

\* The pixels a call that is not Rasterised can set: those a pasted image covers, and
\* any pixel for a line, an ellipse, an arc, a polygon, a rounded rectangle or a text.
Reaches(call, x, y) ==
    IF call.op = "paste_image"
    THEN /\ call.xy[1][1] <= x /\ x < call.xy[1][1] + call.extra[1].size[1]
         /\ call.xy[1][2] <= y /\ y < call.xy[1][2] + call.extra[1].size[2]
    ELSE TRUE

\* The inks of a call: its fill and its outline, the default ink of ImageDraw (white)
\* when it is given neither, the inks of the calls made on a pasted image.
Opaque(color) == IF Len(color) = 3 THEN color \o <<255>> ELSE color

ShapeInks(call) ==
    IF call.fill = None /\ call.outline = None THEN {<<255, 255, 255, 255>>}
    ELSE {Opaque(c) : c \in {call.fill, call.outline} \ {None}}

Inks(call) ==
    IF call.op = "paste_image"
    THEN UNION {ShapeInks(call.extra[1].ops[i]) : i \in DOMAIN call.extra[1].ops}
    ELSE ShapeInks(call)

\* A text is drawn through the antialiased mask of its glyphs: a pixel on the edge of a
\* glyph ends between the ink and the colour below; the middle stands for these.
Blend(ink, below) == [k \in 1 .. 4 |-> (ink[k] + Opaque(below)[k]) \div 2]

\* What call n of the image does to pixel (x, y): it sets it, it leaves it, or that is
\* open (the rasteriser decides).
Effect(image, n, x, y) ==
    IF Rasterised(image.ops[n])
    THEN IF Paints(image.ops[n], x, y) THEN "sets" ELSE "leaves"
    ELSE IF Reaches(image.ops[n], x, y) THEN "open" ELSE "leaves"

SeenAt(image, n, x, y) == {e \in image.seen : e[1] = <<x, y>> /\ e[2] = n}

\* The colour of pixel (x, y) after the first n calls.  Where the rasteriser decides, it
\* is the colour that has been seen there, and no colour before it has been seen.
RECURSIVE Replay(_, _, _, _)
Replay(image, n, x, y) ==
    IF n = 0 THEN image.bg
    ELSE CASE Effect(image, n, x, y) = "sets" -> Ink(image.ops[n], x, y)
           [] Effect(image, n, x, y) = "leaves" -> Replay(image, n - 1, x, y)
           [] Effect(image, n, x, y) = "open" /\ SeenAt(image, n, x, y) # {} ->
                 (CHOOSE e \in SeenAt(image, n, x, y) : TRUE)[3]

\* The call that a read of pixel (x, y) after the first n calls turns on while nothing
\* has been seen of the pixel there; 0 when the colour is settled.
RECURSIVE Open(_, _, _, _)
Open(image, n, x, y) ==
    IF n = 0 THEN 0
    ELSE CASE Effect(image, n, x, y) = "sets" -> 0
           [] Effect(image, n, x, y) = "leaves" -> Open(image, n - 1, x, y)
           [] OTHER -> IF SeenAt(image, n, x, y) # {} THEN 0 ELSE n

\* The colours pixel (x, y) can have after the first n calls, call n being open there:
\* an ink of the call, for a text also a blend, or a colour the pixel could have before.
RECURSIVE Palette(_, _, _, _)
Palette(image, n, x, y) ==
    LET before == IF Open(image, n - 1, x, y) = 0 THEN {Replay(image, n - 1, x, y)}
                  ELSE Palette(image, Open(image, n - 1, x, y), x, y)
        inks == Inks(image.ops[n])
    IN  before \cup inks
            \cup (IF image.ops[n].op = "text"
                  THEN {Blend(i, b) : i \in inks, b \in before}
                  ELSE {})

\* Pixel access (Image.getpixel / Image.putpixel).  PIL builds differ on a negative
\* coordinate: the current ones count it from the far edge (wraps = TRUE), the old ones
\* reject it.  Outside the image after that, the access raises IndexError.
Resolve(n, extent, wraps) == IF n < 0 /\ wraps THEN extent + n ELSE n

PixelAccessRaises(image, x, y, wraps) ==
    LET rx == Resolve(x, image.size[1], wraps)
        ry == Resolve(y, image.size[2], wraps)
    IN  rx < 0 \/ rx >= image.size[1] \/ ry < 0 \/ ry >= image.size[2]

getpixel(image, x, y) ==
    Replay(image, Len(image.ops), Resolve(x, image.size[1], TRUE),
           Resolve(y, image.size[2], TRUE))

\* The image as a read of pixel (x, y) finds it: the image itself where the colour is
\* settled, else the image with one of the colours the pixel can have, seen from now on.
SeenAs(image, n, x, y) ==
    {[image EXCEPT !.seen = @ \cup {<<<<x, y>>, n, c>>}] : c \in Palette(image, n, x, y)}

DevelopedAt(image, n, x, y) == IF n = 0 THEN {image} ELSE SeenAs(image, n, x, y)

Developed(image, x, y) ==
    DevelopedAt(image, Open(image, Len(image.ops), Resolve(x, image.size[1], TRUE),
                            Resolve(y, image.size[2], TRUE)),
                Resolve(x, image.size[1], TRUE), Resolve(y, image.size[2], TRUE))

putpixel(image, x, y, color) ==
    Raster(image, RasterCall("putpixel",
                             <<<<Resolve(x, image.size[1], TRUE),
                                 Resolve(y, image.size[2], TRUE)>>>>,
                             color, None, 0, << >>))

Pixels(image) ==
    [p \in (0 .. image.size[1] - 1) \X (0 .. image.size[2] - 1) |->
        getpixel(image, p[1], p[2])]

---------------------------------------------------------------------------
(* GamePainter: construction and the pen primitives *)

GamePainter(width, height, bg_color) ==
    [width |-> width, height |-> height, image |-> Image_new(width, height, bg_color)]

Draw_fresh(p, call) ==
    [p EXCEPT !.image = Raster(Image_new(p.width, p.height, p.image.bg), call)]

Draw_grow(p, call) ==
    LET far == call.xy[Len(call.xy)]
    IN  [p EXCEPT !.image = Raster([@ EXCEPT !.size = <<Max(@[1], far[1] + 1),
                                                         Max(@[2], far[2] + 1)>>], call)]

\* self.draw.<primitive>(...): the ImageDraw object is bound to self.image.
Draw(p, call) == [p EXCEPT !.image = Raster(@, call)]

NormOpt(color) == IF color # None THEN _ensure_rgba(color) ELSE color

pen_line(p, x1, y1, x2, y2, color, width) ==
    Draw(p, RasterCall("line", <<<<x1, y1>>, <<x2, y2>>>>, _ensure_rgba(color), None,
                       width, << >>))

pen_lines_one(p, points, color, width, closed) ==
    IF Len(points) < 1 THEN p
    ELSE Draw(p, RasterCall("line",
                            IF closed THEN points \o <<points[1]>> ELSE points,
                            _ensure_rgba(color), None, width, <<"curve">>))

pen_lines_last(p, points, color, width, closed) ==
    IF Len(points) < 2 THEN p
    ELSE Draw(p, RasterCall("line",
                            IF closed THEN points \o <<points[Len(points)]>> ELSE points,
                            _ensure_rgba(color), None, width, <<"curve">>))

\* The caller's list object after pen_lines: `points = list(points) + [points[0]]`
\* binds the local name to a new list and leaves the argument as it was.
pen_lines_argument(points, closed) == points

pen_lines(p, points, color, width, closed) ==
    IF Len(points) < 2 THEN p
    ELSE Draw(p, RasterCall("line",
                            IF closed THEN points \o <<points[1]>> ELSE points,
                            _ensure_rgba(color), None, width, <<"curve">>))

pen_rect(p, x, y, width, height, fill_color, border_color, border_width) ==
    Draw(p, RasterCall("rectangle", <<<<x, y>>, <<x + width - 1, y + height - 1>>>>,
                       NormOpt(fill_color), NormOpt(border_color), border_width, << >>))

pen_ellipse(p, x, y, width, height, fill_color, border_color, border_width) ==
    Draw(p, RasterCall("ellipse", <<<<x, y>>, <<x + width - 1, y + height - 1>>>>,
                       NormOpt(fill_color), NormOpt(border_color), border_width, << >>))

pen_arc(p, x, y, width, height, start_angle, end_angle, color, line_width) ==
    Draw(p, RasterCall("arc", <<<<x, y>>, <<x + width - 1, y + height - 1>>>>,
                       _ensure_rgba(color), None, line_width, <<start_angle, end_angle>>))

pen_polygon(p, points, fill_color, border_color, border_width) ==
    Draw(p, RasterCall("polygon", points, NormOpt(fill_color), NormOpt(border_color),
                       border_width, << >>))

pen_point(p, x, y, color, size) ==
    LET r == size \div 2
    IN  Draw(p, RasterCall("ellipse", <<<<x - r, y - r>>, <<x + r, y + r>>>>,
                           _ensure_rgba(color), None, 1, << >>))

\* The font of pen_text: ImageFont.truetype(font_path, font_size), with the PingFang file
\* when font_path is None or empty; when that raises (loaded = FALSE: no such file, a
\* size it rejects), ImageFont.load_default(), which takes neither path nor size.
PINGFANG == "/System/Library/Fonts/PingFang.ttc"

pen_text_font(font_size, font_path, loaded) ==
    IF loaded
    THEN <<"font", IF font_path # None /\ font_path[1] # "" THEN font_path[1] ELSE PINGFANG,
           <<font_size>>>>
    ELSE <<"font", "<default>", << >>>>

\* font_path is << >> (None) or <<path>>; the font travels in the call's width field.
pen_text(p, x, y, text, color, font_size, font_path, loaded) ==
    Draw(p, RasterCall("text", <<<<x, y>>>>, _ensure_rgba(color), None,
                       pen_text_font(font_size, font_path, loaded), <<text>>))


\* _binomial: the running product result * (n - i) // (i + 1), i = 0 .. min(k, n-k) - 1.
RECURSIVE BinomialLoop_divfirst(_, _, _, _)
BinomialLoop_divfirst(result, n, i, m) ==
    IF i >= m THEN result
    ELSE BinomialLoop_divfirst((result \div (i + 1)) * (n - i), n, i + 1, m)

RECURSIVE BinomialLoop(_, _, _, _)
BinomialLoop(result, n, i, m) ==
    IF i >= m THEN result
    ELSE BinomialLoop((result * (n - i)) \div (i + 1), n, i + 1, m)

_binomial(n, k) ==
    IF k < 0 \/ k > n THEN 0
    ELSE IF k = 0 \/ k = n THEN 1
    ELSE BinomialLoop(1, n, 0, Min(k, n - k))

\* A caller asks for one binomial coefficient.
ApplyBinomial ==
    /\ pc = "binomial"
    /\ args' = [args EXCEPT !.result = _binomial(args.n, args.k)]
    /\ pc' = "done"
    /\ UNCHANGED <<painter, original_color, queue, visited>>
    /\ UNCHANGED <<canvas_storage, response, ndraws>>

\* The calls of ** in one sample whose result is not a float, so that the C library
\* rounds it: <<j, 1>> for (1 - t) ** (n - j) and <<j, 2>> for t ** j, j = 0 .. n.
PowCalls(n, t) ==
    {c \in (0 .. n) \X {1, 2} :
        LET k == IF c[2] = 1 THEN n - c[1] ELSE c[1]
            a == IF c[2] = 1 THEN FAdd(FInt(1), FNeg(t)) ELSE t
        IN  k >= 2 /\ FPow(a, k, FALSE) # FPow(a, k, TRUE)}

\* coef = self._binomial(n, i) * (1 - t) ** (n - i) * t ** i, for i = j; up holds the
\* calls of ** that the C library rounds away from zero.
BernsteinCoef(n, j, t, up) ==
    FMul(FMul(FInt(_binomial(n, j)), FPow(FAdd(FInt(1), FNeg(t)), n - j, <<j, 1>> \in up)),
         FPow(t, j, <<j, 2>> \in up))

\* The coefficients of the control points from the j-th on (they are the same for x
\* and for y).
RECURSIVE BernsteinCoefs(_, _, _, _)
BernsteinCoefs(n, j, t, up) ==
    IF j > n THEN << >>
    ELSE <<BernsteinCoef(n, j, t, up)>> \o BernsteinCoefs(n, j + 1, t, up)

\* The loop of _bezier_point over the control points from the j-th on, for coordinate c:
\* x += coef * px, in floating point and in this order.
RECURSIVE BernsteinSum(_, _, _, _, _)
BernsteinSum(points, c, coefs, j, x) ==
    IF j > Len(points) THEN x
    ELSE BernsteinSum(points, c, coefs, j + 1,
                      FAdd(x, FMul(coefs[j], FInt(points[j][c]))))

\* The curve evaluated at half the parameter: the last sample stops halfway.
_bezier_point_open(points, t, up) ==
    LET coefs == BernsteinCoefs(Len(points) - 1, 0, FMul(t, FDiv(1, 2)), up)
    IN  <<BernsteinSum(points, 1, coefs, 1, FZero), BernsteinSum(points, 2, coefs, 1, FZero)>>

\* _bezier_point(points, t): the pair of floats (x, y).
_bezier_point(points, t, up) ==
    LET coefs == BernsteinCoefs(Len(points) - 1, 0, t, up)
    IN  <<BernsteinSum(points, 1, coefs, 1, FZero), BernsteinSum(points, 2, coefs, 1, FZero)>>

BEZIER_STEPS == 50

\* t = i / steps at the first sample, i = 0, is 0 / 0 when steps = 0: ZeroDivisionError.
\* The length test returns before it; a negative steps gives an empty range and no sample.
pen_bezier_raises(points, steps) == Len(points) >= 2 /\ steps = 0

\* One turn of the sampling loop: t = i / steps, point = _bezier_point(points, t), and
\* the sample (int(point[0]), int(point[1])).
curve_point(points, i, steps, up) ==
    LET point == _bezier_point(points, FDiv(i, steps), up)
    IN  <<FTrunc(point[1]), FTrunc(point[2])>>

\* The roundings of ** that tell the possible samples i / steps apart: one per sample
\* the C library can bring about.
SamplePows(points, i, steps) ==
    LET all == SUBSET PowCalls(Len(points) - 1, FDiv(i, steps))
        sampled == {<<up, curve_point(points, i, steps, up)>> : up \in all}
    IN  IF all = {{}} THEN all
        ELSE {(CHOOSE s \in sampled : s[2] = o)[1] : o \in {s[2] : s \in sampled}}

\* The roundings of ** over a whole call of pen_bezier, sample by sample from the i-th.
RECURSIVE PowChoicesFrom(_, _, _)
PowChoicesFrom(points, steps, i) ==
    IF i > steps THEN {<< >>}
    ELSE {<<up>> \o rest : up \in SamplePows(points, i, steps),
                           rest \in PowChoicesFrom(points, steps, i + 1)}

PowChoices(points, steps) ==
    IF Len(points) < 2 \/ steps <= 0 THEN {<< >>} ELSE PowChoicesFrom(points, steps, 0)

\* pow[i + 1] is the rounding of ** at sample i.
pen_bezier(p, points, color, width, steps, pow) ==
    IF Len(points) < 2 THEN p
    ELSE IF pen_bezier_raises(points, steps) THEN Raise("ZeroDivisionError", p)
    ELSE LET curve_points == [i \in 1 .. steps + 1 |->
                                 curve_point(points, i - 1, steps, pow[i])]
         IN  IF Len(curve_points) >= 2
             THEN Draw(p, RasterCall("line", curve_points, _ensure_rgba(color), None,
                                     width, <<"curve">>))
             ELSE p

\* A file path is <<directory, stem, extension>>, standing for the path
\* directory/stem + extension; the directory is "" when the path names none.
\* os.path.dirname is the first part, os.path.splitext(...)[1] the last.
save_reset(p, file_path, io) ==
    IF io # "ok" THEN Raise("OSError", p)
    ELSE [painter |-> [p EXCEPT !.image.ops = << >>], returns |-> <<"abspath", file_path>>]

\* str.upper() of a format name: every spelling of the names png, jpeg, gif, bmp, jpg,
\* webp, tiff and xyz, and the empty name.
Upper(format) ==
    CASE format = "" -> ""
      [] format \in
            {"PNG", "PNg", "PnG", "Png", "pNG", "pNg", "pnG", "png"} -> "PNG"
      [] format \in
            {"JPEG", "JPEg", "JPeG", "JPeg", "JpEG", "JpEg", "JpeG", "Jpeg", "jPEG",
             "jPEg", "jPeG", "jPeg", "jpEG", "jpEg", "jpeG", "jpeg"} -> "JPEG"
      [] format \in
            {"GIF", "GIf", "GiF", "Gif", "gIF", "gIf", "giF", "gif"} -> "GIF"
      [] format \in
            {"BMP", "BMp", "BmP", "Bmp", "bMP", "bMp", "bmP", "bmp"} -> "BMP"
      [] format \in
            {"JPG", "JPg", "JpG", "Jpg", "jPG", "jPg", "jpG", "jpg"} -> "JPG"
      [] format \in
            {"WEBP", "WEBp", "WEbP", "WEbp", "WeBP", "WeBp", "WebP", "Webp", "wEBP",
             "wEBp", "wEbP", "wEbp", "weBP", "weBp", "webP", "webp"} -> "WEBP"
      [] format \in
            {"TIFF", "TIFf", "TIfF", "TIff", "TiFF", "TiFf", "TifF", "Tiff", "tIFF",
             "tIFf", "tIfF", "tIff", "tiFF", "tiFf", "tifF", "tiff"} -> "TIFF"
      [] format \in
            {"XYZ", "XYz", "XyZ", "Xyz", "xYZ", "xYz", "xyZ", "xyz"} -> "XYZ"

\* The format Image.save takes from a file name's extension (lowercased), for the
\* extensions named here; << >> for a name without extension and for .txt, for which
\* PIL knows none.
ExtensionFormat(ext) ==
    CASE ext \in {".png", ".PNG"} -> <<"PNG">>
      [] ext \in {".jpg", ".jpeg", ".JPG"} -> <<"JPEG">>
      [] ext \in {".gif", ".GIF"} -> <<"GIF">>
      [] ext \in {".bmp", ".BMP"} -> <<"BMP">>
      [] ext \in {"", ".txt"} -> << >>

\* What Image.save of the RGBA image raises for a format name: nothing (<< >>) for PNG,
\* GIF, BMP and TIFF, which hold RGBA or convert it; OSError for JPEG, which cannot hold
\* an alpha band; KeyError for JPG and XYZ, which are no format names of PIL;
\* ValueError for the empty name, for which Image.save turns to the extension of the
\* file name and a buffer has none.  Whether WEBP has a writer depends on the build of
\* PIL, and the operator is not defined for it.
ImageSaveRaises(format) ==
    CASE Upper(format) \in {"PNG", "GIF", "BMP", "TIFF"} -> << >>
      [] Upper(format) = "" -> <<"ValueError">>
      [] Upper(format) = "JPEG" -> <<"OSError">>
      [] Upper(format) \in {"JPG", "XYZ"} -> <<"KeyError">>

\* GamePainter.save(file_path): os.makedirs for a directory that is named and missing,
\* self.image.save(file_path), and the absolute path as the result.  The file system is
\* outside the modelled state; io is what it does: "ok", "notadir" (a component of the
\* missing directory is a regular file: os.makedirs raises NotADirectoryError),
\* "makedirs" (the missing directory may not be made: PermissionError) or "write" (the
\* file may not be opened for writing: PermissionError).  Image.save raises ValueError
\* for an extension PIL knows no format for, before it opens the file, and OSError for
\* a format that cannot hold RGBA; the canvas stays as it is in every case.
save(p, file_path, io) ==
    LET format == ExtensionFormat(file_path[3])
    IN  IF io = "notadir" /\ file_path[1] # "" THEN Raise("NotADirectoryError", p)
        ELSE IF io = "makedirs" /\ file_path[1] # "" THEN Raise("PermissionError", p)
        ELSE IF format = << >> THEN Raise("ValueError", p)
        ELSE IF io = "write" THEN Raise("PermissionError", p)
        ELSE IF ImageSaveRaises(format[1]) # << >> THEN Raise(ImageSaveRaises(format[1])[1], p)
        ELSE [painter |-> p, returns |-> <<"abspath", file_path>>]

\* to_bytes(format): the image encoded in the format (the data stands for the format
\* and the image it encodes), or what Image.save raises.  A call that returns is the
\* record of what it returns.
to_bytes(p, format) ==
    IF ImageSaveRaises(format) # << >> THEN Raise(ImageSaveRaises(format)[1], p)
    ELSE [returns |-> <<"bytes", Upper(format), p.image>>]

\* base64.b64encode(self.to_bytes(format)).decode("utf-8")
to_base64(p, format) ==
    LET bytes == to_bytes(p, format)
    IN  IF Raised(bytes) THEN bytes ELSE [returns |-> <<"base64", bytes.returns>>]

\* f"data:{mime};base64,{self.to_base64(format)}", the mime type looked up by
\* format.upper() with image/png for any other name
get_data_uri(p, format) ==
    LET mime == CASE Upper(format) = "PNG" -> "image/png"
                  [] Upper(format) = "JPEG" -> "image/jpeg"
                  [] Upper(format) = "GIF" -> "image/gif"
                  [] OTHER -> "image/png"
        data == to_base64(p, format)
    IN  IF Raised(data) THEN data
        ELSE [returns |-> <<"data:", mime, ";base64,", data.returns>>]

\* What a call that has ended gives its caller: the value it returns, or the exception.
Outcome(r) == IF Raised(r) THEN <<"raised", r.raises>> ELSE r.returns

\* What a serialisation method returns to its caller, or the exception it raises.
Serialised(p, method, file_path, format, io) ==
    Outcome(CASE method = "save" -> save(p, file_path, io)
              [] method = "to_bytes" -> to_bytes(p, format)
              [] method = "to_base64" -> to_base64(p, format)
              [] method = "get_data_uri" -> get_data_uri(p, format))

---------------------------------------------------------------------------
(* The presets (painter.py, module level): fixed sequences of pen calls *)

s(v, scale) == IntDiv(v * scale, 1)

draw_simple_tree(p, x, y, scale, trunk_color, leaf_color) ==
    LET p1 == pen_rect(p, x + s(35, scale), y + s(70, scale), s(20, scale), s(50, scale),
                       trunk_color, <<100, 60, 30, 255>>, 2)
        p2 == pen_polygon(p1, <<<<x + s(5, scale), y + s(75, scale)>>,
                                <<x + s(45, scale), y + s(40, scale)>>,
                                <<x + s(85, scale), y + s(75, scale)>>>>,
                          leaf_color, <<30, 120, 30, 255>>, 2)
        p3 == pen_polygon(p2, <<<<x + s(12, scale), y + s(55, scale)>>,
                                <<x + s(45, scale), y + s(22, scale)>>,
                                <<x + s(78, scale), y + s(55, scale)>>>>,
                          leaf_color, <<30, 120, 30, 255>>, 2)
    IN  pen_polygon(p3, <<<<x + s(20, scale), y + s(35, scale)>>,
                          <<x + s(45, scale), y + s(5, scale)>>,
                          <<x + s(70, scale), y + s(35, scale)>>>>,
                    leaf_color, <<30, 120, 30, 255>>, 2)

draw_simple_house(p, x, y, scale, wall_color, roof_color) ==
    LET p1 == pen_rect(p, x + s(20, scale), y + s(50, scale), s(100, scale), s(70, scale),
                       wall_color, <<100, 80, 50, 255>>, 2)
        p2 == pen_polygon(p1, <<<<x + s(10, scale), y + s(50, scale)>>,
                                <<x + s(70, scale), y + s(10, scale)>>,
                                <<x + s(130, scale), y + s(50, scale)>>>>,
                          roof_color, <<100, 40, 20, 255>>, 2)
        p3 == pen_rect(p2, x + s(55, scale), y + s(80, scale), s(30, scale), s(40, scale),
                       <<139, 90, 43, 255>>, <<90, 60, 30, 255>>, 2)
        p4 == pen_point(p3, x + s(80, scale), y + s(100, scale), <<255, 215, 0, 255>>,
                        s(4, scale))
        p5 == pen_rect(p4, x + s(28, scale), y + s(60, scale), s(20, scale), s(18, scale),
                       <<150, 200, 255, 255>>, <<100, 80, 50, 255>>, 2)
        p6 == pen_rect(p5, x + s(92, scale), y + s(60, scale), s(20, scale), s(18, scale),
                       <<150, 200, 255, 255>>, <<100, 80, 50, 255>>, 2)
    IN  pen_rect(p6, x + s(95, scale), y + s(20, scale), s(15, scale), s(30, scale),
                 <<150, 80, 50, 255>>, <<100, 50, 30, 255>>, 2)


draw_simple_car(p, x, y, scale, body_color, window_color) ==
    LET wheel_color == <<40, 40, 40, 255>>
        hub_color == <<180, 180, 180, 255>>
        p1 == pen_polygon(p, <<<<x + s(10, scale), y + s(50, scale)>>,
                               <<x + s(10, scale), y + s(35, scale)>>,
                               <<x + s(140, scale), y + s(35, scale)>>,
                               <<x + s(140, scale), y + s(50, scale)>>>>,
                          body_color, <<0, 0, 0, 255>>, 2)
        p2 == pen_polygon(p1, <<<<x + s(30, scale), y + s(35, scale)>>,
                                <<x + s(40, scale), y + s(15, scale)>>,
                                <<x + s(100, scale), y + s(15, scale)>>,
                                <<x + s(110, scale), y + s(35, scale)>>>>,
                          body_color, <<0, 0, 0, 255>>, 2)
        p3 == pen_polygon(p2, <<<<x + s(42, scale), y + s(33, scale)>>,
                                <<x + s(48, scale), y + s(18, scale)>>,
                                <<x + s(68, scale), y + s(18, scale)>>,
                                <<x + s(68, scale), y + s(33, scale)>>>>,
                          window_color, <<50, 50, 50, 255>>, 1)
        p4 == pen_polygon(p3, <<<<x + s(72, scale), y + s(33, scale)>>,
                                <<x + s(72, scale), y + s(18, scale)>>,
                                <<x + s(95, scale), y + s(18, scale)>>,
                                <<x + s(102, scale), y + s(33, scale)>>>>,
                          window_color, <<50, 50, 50, 255>>, 1)
        p5 == pen_ellipse(p4, x + s(130, scale), y + s(38, scale), s(12, scale), s(8, scale),
                          <<255, 255, 150, 255>>, <<200, 180, 50, 255>>, 1)
        p6 == pen_ellipse(p5, x + s(8, scale), y + s(38, scale), s(10, scale), s(8, scale),
                          <<255, 50, 50, 255>>, <<150, 30, 30, 255>>, 1)
        p7 == pen_ellipse(p6, x + s(25, scale), y + s(42, scale), s(24, scale), s(24, scale),
                          wheel_color, <<20, 20, 20, 255>>, 2)
        p8 == pen_ellipse(p7, x + s(31, scale), y + s(48, scale), s(12, scale), s(12, scale),
                          hub_color, None, 2)
        p9 == pen_ellipse(p8, x + s(100, scale), y + s(42, scale), s(24, scale), s(24, scale),
                          wheel_color, <<20, 20, 20, 255>>, 2)
    IN  pen_ellipse(p9, x + s(106, scale), y + s(48, scale), s(12, scale), s(12, scale),
                    hub_color, None, 2)


---------------------------------------------------------------------------
(* GamePainter.draw_progress_bar *)

OrDefault_none(opt, default) == IF opt = None THEN default ELSE opt[1]

\* `width or self.width`: None and 0 both give the canvas extent.
OrDefault(opt, default) == IF opt = None \/ opt = <<0>> THEN default ELSE opt[1]

Clamp_none(progress) == progress

\* progress = max(0, min(100, progress))
Clamp(progress) == Max(0, Min(100, progress))

\* fill_width = int((w - 4) * progress / 100)
FillWidth(w, progress) == IntDiv((w - 4) * progress, 100)

RoundedRect(x0, y0, x1, y1, radius, fill, outline, width) ==
    RasterCall("rounded_rectangle", <<<<x0, y0>>, <<x1, y1>>>>, fill, outline, width,
               <<radius>>)

\* _lerp_color(c1, c2, t): int(a + (b - a) * t) per channel pair, t a float.
_lerp_color(c1, c2, t) ==
    [k \in 1 .. Min(Len(c1), Len(c2)) |->
        FTrunc(FAdd(FInt(c1[k]), FMul(FInt(c2[k] - c1[k]), t)))]

\* The colours of the lines drawn on gradient_img, in loop order: range(h) for vertical,
\* range(w) for horizontal, range(w + h) for diagonal; no other direction draws any.
GradientColours(direction, c1, c2, w, h) ==
    LET n == CASE direction = "vertical" -> h
               [] direction = "horizontal" -> w
               [] direction = "diagonal" -> w + h
               [] OTHER -> 0
    IN  [i \in 1 .. n |-> _lerp_color(c1, c2, FDiv(i - 1, Max(n - 1, 1)))]

\* gradient is << >> (None) or <<direction>>.
draw_rounded_rect_direction(p, x, y, width, height, radius, fill_color_in, border_color, border_width, gradient, gradient_end_color) ==
    LET w == OrDefault(width, p.width)
        h == OrDefault(height, p.height)
        fill_color == _ensure_rgba(fill_color_in)
    IN  IF fill_color_in = None THEN Raise("TypeError", p)
        ELSE IF gradient # None
        THEN IF Image_new_raises(w, h) THEN Raise("ValueError", p)
             ELSE Draw(p, RasterCall("paste", <<<<x, y>>, <<x + w - 1, y + h - 1>>>>, None,
                                     None, 0,
                                     <<gradient[1],
                                       GradientColours(gradient[1], fill_color,
                                                       _ensure_rgba(gradient_end_color),
                                                       w, h),
                                       radius>>))
        ELSE Draw(p, RoundedRect(x, y, x + w - 1, y + h - 1, radius, fill_color,
                                 border_color, border_width))

\* The gradient is drawn on gradient_img = Image.new("RGBA", (w, h), ...), which raises
\* ValueError on a negative w or h before the canvas is touched; _ensure_rgba(None)
\* raises TypeError (len of None).
draw_rounded_rect(p, x, y, width, height, radius, fill_color_in, border_color, border_width, gradient, gradient_end_color) ==
    LET w == OrDefault(width, p.width)
        h == OrDefault(height, p.height)
        fill_color == _ensure_rgba(fill_color_in)
    IN  IF fill_color_in = None THEN Raise("TypeError", p)
        ELSE IF gradient # None /\ gradient_end_color # None
        THEN IF Image_new_raises(w, h) THEN Raise("ValueError", p)
             ELSE Draw(p, RasterCall("paste", <<<<x, y>>, <<x + w - 1, y + h - 1>>>>, None,
                                     None, 0,
                                     <<gradient[1],
                                       GradientColours(gradient[1], fill_color,
                                                       _ensure_rgba(gradient_end_color),
                                                       w, h),
                                       radius>>))
        ELSE Draw(p, RoundedRect(x, y, x + w - 1, y + h - 1, radius, fill_color,
                                 border_color, border_width))

DrawRoundedRect ==
    /\ pc = "rounded_rect"
    /\ Called(draw_rounded_rect(painter, args.x, args.y, args.width, args.height,
                                args.radius, args.fill_color, args.border_color,
                                args.border_width, args.gradient,
                                args.gradient_end_color))
    /\ UNCHANGED <<args, original_color, queue, visited>>
    /\ UNCHANGED serverVars

draw_progress_bar(p, x, y, width, height, progress_in, bg_color, fill_color, border_color, border_width, show_glow) ==
    LET w == OrDefault(width, p.width)
        h == OrDefault(height, p.height)
        radius == h \div 2
        progress == Clamp(progress_in)
        p1 == Draw(p, RoundedRect(x, y, x + w - 1, y + h - 1, radius, bg_color, None, 1))
        fill_width == FillWidth(w, progress)
        glow_color == SubSeq(fill_color, 1, Min(3, Len(fill_color))) \o <<100>>
        p2 == IF fill_width > 0 /\ show_glow
              THEN Draw(p1, RoundedRect(x + 1, y + 1, x + 3 + fill_width, y + h - 2,
                                        radius - 1, glow_color, None, 1))
              ELSE p1
        p3 == IF fill_width > 0
              THEN Draw(p2, RoundedRect(x + 2, y + 2, x + 2 + fill_width, y + h - 3,
                                        Max(1, radius - 2), fill_color, None, 1))
              ELSE p2
    IN  IF border_color # None /\ border_width > 0
        THEN Draw(p3, RoundedRect(x, y, x + w - 1, y + h - 1, radius, None, border_color,
                                  border_width))
        ELSE p3

\* A caller draws one rectangle on the canvas it holds.
DrawRect ==
    /\ pc = "rect"
    /\ painter' = pen_rect(painter, args.x, args.y, args.width, args.height,
                           args.fill_color, args.border_color, args.border_width)
    /\ pc' = "done"
    /\ UNCHANGED <<args, original_color, queue, visited>>
    /\ UNCHANGED serverVars

\* A caller normalises a colour, then normalises the result once more.
NormaliseColour ==
    /\ pc = "rgba"
    /\ args' = [args EXCEPT !.once = _ensure_rgba(args.color)]
    /\ pc' = "rgba_again"
    /\ UNCHANGED <<painter, original_color, queue, visited>>
    /\ UNCHANGED serverVars

NormaliseAgain ==
    /\ pc = "rgba_again"
    /\ args' = [args EXCEPT !.twice = _ensure_rgba(args.once)]
    /\ pc' = "done"
    /\ UNCHANGED <<painter, original_color, queue, visited>>
    /\ UNCHANGED serverVars

\* A caller strokes one polyline on the canvas it holds, passing its own list.
DrawLines ==
    /\ pc = "lines"
    /\ painter' = pen_lines(painter, args.points, args.color, args.width, args.closed)
    /\ args' = [args EXCEPT !.points = pen_lines_argument(@, args.closed)]
    /\ pc' = "done"
    /\ UNCHANGED <<original_color, queue, visited>>
    /\ UNCHANGED serverVars

\* A caller strokes one Bezier curve on the canvas it holds.
DrawBezier ==
    /\ pc = "bezier"
    /\ \E pow \in PowChoices(args.points, args.steps) :
          Called(pen_bezier(painter, args.points, args.color, args.width, args.steps,
                            pow))
    /\ UNCHANGED <<args, original_color, queue, visited>>
    /\ UNCHANGED serverVars

\* A caller draws one progress bar on the canvas it holds.
CallProgressBar(p, a) ==
    draw_progress_bar(p, a.x, a.y, a.width, a.height, a.progress, a.bg_color,
                      a.fill_color, a.border_color, a.border_width, a.show_glow)

DrawProgressBar ==
    /\ pc = "bar"
    /\ painter' = CallProgressBar(painter, args)
    /\ pc' = "done"
    /\ UNCHANGED <<args, original_color, queue, visited>>
    /\ UNCHANGED serverVars

---------------------------------------------------------------------------
(* GamePainter.draw_health_bar and create_progress_bar *)

HP_GREEN == <<50, 205, 50, 255>>
HP_ORANGE == <<255, 165, 0, 255>>
HP_RED == <<255, 50, 50, 255>>

HealthColor_ge(hp_percent) ==
    IF hp_percent >= 60 THEN HP_GREEN
    ELSE IF hp_percent >= 30 THEN HP_ORANGE
    ELSE HP_RED

\* if hp_percent > 60 ... elif hp_percent > 30 ... else ...
HealthColor(hp_percent) ==
    IF hp_percent > 60 THEN HP_GREEN
    ELSE IF hp_percent > 30 THEN HP_ORANGE
    ELSE HP_RED

\* for i in range(1, segment_count): one vertical line per segment boundary
RECURSIVE SegmentLines(_, _, _, _, _, _, _)
SegmentLines(p, x, y, h, seg_width, i, segment_count) ==
    IF i >= segment_count THEN p
    ELSE SegmentLines(Draw(p, RasterCall("line",
                                         <<<<x + i * seg_width, y>>,
                                           <<x + i * seg_width, y + h - 1>>>>,
                                         <<0, 0, 0, 150>>, None, 1, << >>)),
                      x, y, h, seg_width, i + 1, segment_count)

\* The background and the fill of the health bar, drawn before the segment lines.
HealthFill(p, x, y, w, h, hp_percent) ==
    LET fill_color == HealthColor(hp_percent)
        p1 == Draw(p, RasterCall("rectangle", <<<<x, y>>, <<x + w - 1, y + h - 1>>>>,
                                 <<30, 30, 30, 255>>, None, 1, << >>))
        hp_width == IntDiv((w - 4) * hp_percent, 100)
    IN  IF hp_width > 0
        THEN Draw(p1, RasterCall("rectangle",
                                 <<<<x + 2, y + 2>>, <<x + 2 + hp_width, y + h - 3>>>>,
                                 fill_color, None, 1, << >>))
        ELSE p1

\* seg_width = w // segment_count divides by zero when segment_count = 0:
\* ZeroDivisionError, after the background and the fill have been drawn.
draw_health_bar_raises(show_segments, segment_count) == show_segments /\ segment_count = 0

draw_health_bar(p, x, y, width, height, hp_percent, show_segments, segment_count) ==
    LET w == OrDefault(width, p.width)
        h == OrDefault(height, p.height)
        p2 == HealthFill(p, x, y, w, h, hp_percent)
        p3 == IF show_segments
              THEN SegmentLines(p2, x, y, h, w \div segment_count, 1, segment_count)
              ELSE p2
    IN  IF draw_health_bar_raises(show_segments, segment_count)
        THEN Raise("ZeroDivisionError", p2)
        ELSE Draw(p3, RasterCall("rectangle", <<<<x, y>>, <<x + w - 1, y + h - 1>>>>,
                                 None, <<80, 80, 80, 255>>, 2, << >>))

\* create_progress_bar(width, height, progress, bar_type): a new canvas with one bar.
\* GamePainter(width, height) raises ValueError on a negative size, and then there is
\* no canvas.
create_progress_bar(width, height, progress, bar_type) ==
    LET p == GamePainter(width, height, TRANSPARENT)
    IN  IF Image_new_raises(width, height) THEN Raise("ValueError", None)
        ELSE IF bar_type = "health"
        THEN draw_health_bar(p, 0, 0, None, None, progress, TRUE, 10)
        ELSE draw_progress_bar(p, 0, 0, None, None, progress, <<60, 60, 60, 255>>,
                               <<50, 205, 50, 255>>, <<100, 100, 100, 255>>, 2, TRUE)

\* painter is the caller's name for the result; it stays unbound when the call raises.
CreateProgressBar ==
    /\ pc = "create_bar"
    /\ Made(create_progress_bar(args.width, args.height, args.progress, args.bar_type))
    /\ UNCHANGED <<args, original_color, queue, visited>>
    /\ UNCHANGED serverVars

\* A caller draws one health bar on the canvas it holds.
DrawHealthBar ==
    /\ pc = "health"
    /\ Called(draw_health_bar(painter, args.x, args.y, args.width, args.height,
                              args.hp_percent, args.show_segments, args.segment_count))
    /\ UNCHANGED <<args, original_color, queue, visited>>
    /\ UNCHANGED serverVars

---------------------------------------------------------------------------
(* GamePainter's icon buttons (draw_close_button ... draw_check_button) and            *)
(* create_control_button                                                               *)

\* The float literals with two decimals (0.85, 0.5, 1.2, ...): Literal[num] is the float
\* nearest to num / 100.
Literal == [num \in 0 .. 120 |-> FDiv(num, 100)]

\* int(r * f) for the float literal f = 0.01 * num: the float product, and int() of it.
Scaled(r, num) == FTrunc(FMul(FInt(r), Literal[num]))

\* c + k * f and c - k * f for ints c and k and the float literal f = 0.01 * num: floats.
Plus(c, k, num) == FAdd(FInt(c), FMul(FInt(k), Literal[num]))

Minus(c, k, num) == FAdd(FInt(c), FNeg(FMul(FInt(k), Literal[num])))

\* self.draw.line / ellipse / rectangle / polygon with the arguments the composites give
\* (PIL's own default for a width that is not given is 1, and 0 for a line).
Line(xy, fill, width) == RasterCall("line", xy, fill, None, width, << >>)

Ellipse(x0, y0, x1, y1, fill, outline, width) ==
    RasterCall("ellipse", <<<<x0, y0>>, <<x1, y1>>>>, fill, outline, width, << >>)

Rectangle(x0, y0, x1, y1, fill, outline, width) ==
    RasterCall("rectangle", <<<<x0, y0>>, <<x1, y1>>>>, fill, outline, width, << >>)

Polygon(xy, fill, outline, width) == RasterCall("polygon", xy, fill, outline, width, << >>)

\* The background of an icon button: a circle, a rounded square, or nothing.
IconBackground(p, cx, cy, r, bg_color, style) ==
    CASE style = "circle" -> Draw(p, Ellipse(cx - r, cy - r, cx + r, cy + r, bg_color, None, 1))
      [] style = "square" ->
            Draw(p, RoundedRect(cx - r, cy - r, cx + r, cy + r, 4, bg_color, None, 1))
      [] OTHER -> p

\* The background of the buttons whose bg_color may be None: `if bg_color and style !=
\* "none"`, with the colour normalised only then.
OptionalBackground(p, cx, cy, r, bg_color_in, style) ==
    IF bg_color_in # None /\ style # "none"
    THEN IconBackground(p, cx, cy, r, _ensure_rgba(bg_color_in), style)
    ELSE p

\* The buttons with a bg_color default (close, play, pause, plus, minus, check) normalise
\* bg_color and icon_color first, and _ensure_rgba(None) raises TypeError.
draw_close_button(p, center_x, center_y, size, bg_color_in, icon_color_in, style) ==
    LET cx == Get(center_x, p.width \div 2)
        cy == Get(center_y, p.height \div 2)
        sz == Get(size, Min(p.width, p.height) - 4)
        r == sz \div 2
        bg_color == _ensure_rgba(bg_color_in)
        icon_color == _ensure_rgba(icon_color_in)
        p1 == IconBackground(p, cx, cy, r, bg_color, style)
        line_width == Max(2, sz \div 10)
        Cross(offset) ==
            Draw(Draw(p1, Line(<<<<cx - offset, cy - offset>>, <<cx + offset, cy + offset>>>>,
                               icon_color, line_width)),
                 Line(<<<<cx + offset, cy - offset>>, <<cx - offset, cy + offset>>>>,
                      icon_color, line_width))
    IN  IF bg_color_in = None \/ icon_color_in = None THEN Raise("TypeError", p)
        ELSE Cross(Scaled(r, 50))

\* The gear outline: 2 * teeth vertices around (cx, cy), at angle pi * i / teeth - pi / 2
\* and at radius outer_r (even i) or inner_r (odd i); kept in this polar form.
GearPoints(cx, cy, outer_r, inner_r, teeth) ==
    [k \in 1 .. 2 * teeth |->
        <<cx, cy, IF (k - 1) % 2 = 0 THEN outer_r ELSE inner_r, k - 1>>]

\* bg_color is None (<< >>) or a colour.
draw_settings_button(p, center_x, center_y, size, bg_color_in, icon_color_in, style) ==
    LET cx == Get(center_x, p.width \div 2)
        cy == Get(center_y, p.height \div 2)
        sz == Get(size, Min(p.width, p.height) - 4)
        r == sz \div 2
        icon_color == _ensure_rgba(icon_color_in)
        with_bg == bg_color_in # None /\ style # "none"
        bg_color == IF with_bg THEN _ensure_rgba(bg_color_in) ELSE bg_color_in
        p1 == OptionalBackground(p, cx, cy, r, bg_color_in, style)
        Gear(outer_r, inner_r, center_r) ==
            Draw(Draw(p1, Polygon(GearPoints(cx, cy, outer_r, inner_r, 8), icon_color, None, 1)),
                 Ellipse(cx - center_r, cy - center_r, cx + center_r, cy + center_r,
                         IF bg_color = None THEN <<0, 0, 0, 0>> ELSE bg_color, None, 1))
    IN  IF icon_color_in = None THEN Raise("TypeError", p)
        ELSE Gear(Scaled(r, 85), Scaled(r, 50), Scaled(r, 30))

draw_play_button(p, center_x, center_y, size, bg_color_in, icon_color_in, style) ==
    LET cx == Get(center_x, p.width \div 2)
        cy == Get(center_y, p.height \div 2)
        sz == Get(size, Min(p.width, p.height) - 4)
        r == sz \div 2
        bg_color == _ensure_rgba(bg_color_in)
        icon_color == _ensure_rgba(icon_color_in)
        p1 == IconBackground(p, cx, cy, r, bg_color, style)
        Triangle(offset) ==
            Draw(p1, Polygon(<<<<cx - offset + 2, cy - offset>>, <<cx + offset + 2, cy>>,
                               <<cx - offset + 2, cy + offset>>>>, icon_color, None, 1))
    IN  IF bg_color_in = None \/ icon_color_in = None THEN Raise("TypeError", p)
        ELSE Triangle(Scaled(r, 45))

draw_pause_button(p, center_x, center_y, size, bg_color_in, icon_color_in, style) ==
    LET cx == Get(center_x, p.width \div 2)
        cy == Get(center_y, p.height \div 2)
        sz == Get(size, Min(p.width, p.height) - 4)
        r == sz \div 2
        bg_color == _ensure_rgba(bg_color_in)
        icon_color == _ensure_rgba(icon_color_in)
        p1 == IconBackground(p, cx, cy, r, bg_color, style)
        Bars(bar_width, bar_height, gap) ==
            Draw(Draw(p1, Rectangle(cx - gap - bar_width, cy - bar_height, cx - gap,
                                    cy + bar_height, icon_color, None, 1)),
                 Rectangle(cx + gap, cy - bar_height, cx + gap + bar_width,
                           cy + bar_height, icon_color, None, 1))
    IN  IF bg_color_in = None \/ icon_color_in = None THEN Raise("TypeError", p)
        ELSE Bars(Max(3, Scaled(r, 25)), Scaled(r, 90), Max(2, Scaled(r, 20)))

\* for i in range(-1, 2): one bar at y = cy + i * gap
RECURSIVE MenuBars(_, _, _, _, _, _, _, _)
MenuBars(p, cx, cy, bar_width, bar_height, gap, icon_color, i) ==
    IF i >= 2 THEN p
    ELSE MenuBars(Draw(p, RoundedRect(cx - bar_width \div 2,
                                      cy + i * gap - bar_height \div 2,
                                      cx + bar_width \div 2,
                                      cy + i * gap + bar_height \div 2,
                                      bar_height \div 2, icon_color, None, 1)),
                  cx, cy, bar_width, bar_height, gap, icon_color, i + 1)

draw_menu_button(p, center_x, center_y, size, bg_color_in, icon_color_in, style) ==
    LET cx == Get(center_x, p.width \div 2)
        cy == Get(center_y, p.height \div 2)
        sz == Get(size, Min(p.width, p.height) - 4)
        r == sz \div 2
        icon_color == _ensure_rgba(icon_color_in)
        p1 == OptionalBackground(p, cx, cy, r, bg_color_in, style)
    IN  IF icon_color_in = None THEN Raise("TypeError", p)
        ELSE MenuBars(p1, cx, cy, Scaled(r, 120), Max(2, Scaled(r, 15)), Scaled(r, 40),
                      icon_color, -1)

\* The roof points (cx, cy - r * 0.7), (cx - r * 0.7, cy), (cx + r * 0.7, cy) pair an int
\* with a float.
draw_home_button(p, center_x, center_y, size, bg_color_in, icon_color_in, style) ==
    LET cx == Get(center_x, p.width \div 2)
        cy == Get(center_y, p.height \div 2)
        sz == Get(size, Min(p.width, p.height) - 4)
        r == sz \div 2
        icon_color == _ensure_rgba(icon_color_in)
        with_bg == bg_color_in # None /\ style # "none"
        bg_color == IF with_bg THEN _ensure_rgba(bg_color_in) ELSE bg_color_in
        p1 == OptionalBackground(p, cx, cy, r, bg_color_in, style)
        p2 == Draw(p1, Polygon(<<<<cx, Minus(cy, r, 70)>>, <<Minus(cx, r, 70), cy>>,
                                 <<Plus(cx, r, 70), cy>>>>, icon_color, None, 1))
        door_color == IF bg_color # None THEN bg_color ELSE <<0, 0, 0, 0>>
        House(body_w, body_h, door_w, door_h) ==
            Draw(Draw(p2, Rectangle(cx - body_w \div 2, cy, cx + body_w \div 2, cy + body_h,
                                    icon_color, None, 1)),
                 Rectangle(cx - door_w \div 2, cy + body_h - door_h,
                           cx + door_w \div 2, cy + body_h, door_color, None, 1))
    IN  IF icon_color_in = None THEN Raise("TypeError", p)
        ELSE House(Scaled(r, 90), Scaled(r, 65), Scaled(r, 35), Scaled(r, 50))

\* math.cos(math.radians(30)) and math.sin(math.radians(30)), the floats
\* 0.8660254037844387 = 7800463371553963 * 2^-53 and 0.49999999999999994 = (2^53 - 1) * 2^-54
COS_30 == [s |-> 1, m |-> <<19627, 20656, 23019, 221>>, e |-> -53]

SIN_30 == [s |-> 1, m |-> <<32767, 32767, 32767, 255>>, e |-> -54]

\* The arrow head sits at (ax, ay) = (cx + arc_r * cos 30, cy - arc_r * sin 30), floats.
draw_refresh_button(p, center_x, center_y, size, bg_color_in, icon_color_in, style) ==
    LET cx == Get(center_x, p.width \div 2)
        cy == Get(center_y, p.height \div 2)
        sz == Get(size, Min(p.width, p.height) - 4)
        r == sz \div 2
        icon_color == _ensure_rgba(icon_color_in)
        p1 == OptionalBackground(p, cx, cy, r, bg_color_in, style)
        ArrowHead(p2, ax, ay, arrow_size) ==
            Draw(p2, Polygon(<<<<ax, ay>>,
                               <<FAdd(ax, FInt(arrow_size)), FAdd(ay, FInt(arrow_size \div 2))>>,
                               <<FAdd(ax, FInt(arrow_size \div 2)), FAdd(ay, FInt(arrow_size))>>>>,
                             icon_color, None, 1))
        Arrow(arc_r, line_width, arrow_size) ==
            ArrowHead(Draw(p1, RasterCall("arc", <<<<cx - arc_r, cy - arc_r>>,
                                                   <<cx + arc_r, cy + arc_r>>>>,
                                          icon_color, None, line_width, <<30, 300>>)),
                      FAdd(FInt(cx), FMul(FInt(arc_r), COS_30)),
                      FAdd(FInt(cy), FNeg(FMul(FInt(arc_r), SIN_30))),
                      arrow_size)
    IN  IF icon_color_in = None THEN Raise("TypeError", p)
        ELSE Arrow(Scaled(r, 65), Max(2, Scaled(r, 20)), Scaled(r, 30))

draw_back_button(p, center_x, center_y, size, bg_color_in, icon_color_in, style) ==
    LET cx == Get(center_x, p.width \div 2)
        cy == Get(center_y, p.height \div 2)
        sz == Get(size, Min(p.width, p.height) - 4)
        r == sz \div 2
        icon_color == _ensure_rgba(icon_color_in)
        p1 == OptionalBackground(p, cx, cy, r, bg_color_in, style)
        Arrow(line_width, offset) ==
            Draw(Draw(Draw(p1, Line(<<<<cx - offset, cy>>, <<cx + offset, cy>>>>, icon_color,
                                    line_width)),
                      Line(<<<<cx - offset, cy>>, <<cx - offset \div 2, cy - offset \div 2>>>>,
                           icon_color, line_width)),
                 Line(<<<<cx - offset, cy>>, <<cx - offset \div 2, cy + offset \div 2>>>>,
                      icon_color, line_width))
    IN  IF icon_color_in = None THEN Raise("TypeError", p)
        ELSE Arrow(Max(2, Scaled(r, 20)), Scaled(r, 60))

draw_plus_button(p, center_x, center_y, size, bg_color_in, icon_color_in, style) ==
    LET cx == Get(center_x, p.width \div 2)
        cy == Get(center_y, p.height \div 2)
        sz == Get(size, Min(p.width, p.height) - 4)
        r == sz \div 2
        bg_color == _ensure_rgba(bg_color_in)
        icon_color == _ensure_rgba(icon_color_in)
        p1 == IconBackground(p, cx, cy, r, bg_color, style)
        line_width == Max(2, sz \div 8)
        Cross(offset) ==
            Draw(Draw(p1, Line(<<<<cx - offset, cy>>, <<cx + offset, cy>>>>, icon_color,
                               line_width)),
                 Line(<<<<cx, cy - offset>>, <<cx, cy + offset>>>>, icon_color, line_width))
    IN  IF bg_color_in = None \/ icon_color_in = None THEN Raise("TypeError", p)
        ELSE Cross(Scaled(r, 55))

draw_minus_button(p, center_x, center_y, size, bg_color_in, icon_color_in, style) ==
    LET cx == Get(center_x, p.width \div 2)
        cy == Get(center_y, p.height \div 2)
        sz == Get(size, Min(p.width, p.height) - 4)
        r == sz \div 2
        bg_color == _ensure_rgba(bg_color_in)
        icon_color == _ensure_rgba(icon_color_in)
        p1 == IconBackground(p, cx, cy, r, bg_color, style)
        line_width == Max(2, sz \div 8)
        Bar(offset) ==
            Draw(p1, Line(<<<<cx - offset, cy>>, <<cx + offset, cy>>>>, icon_color, line_width))
    IN  IF bg_color_in = None \/ icon_color_in = None THEN Raise("TypeError", p)
        ELSE Bar(Scaled(r, 55))

\* points = [(cx - offset, cy), (cx - offset // 3, cy + offset * 0.7),
\*           (cx + offset, cy - offset * 0.6)]; the lines are points[:2] and points[1:].
draw_check_button(p, center_x, center_y, size, bg_color_in, icon_color_in, style) ==
    LET cx == Get(center_x, p.width \div 2)
        cy == Get(center_y, p.height \div 2)
        sz == Get(size, Min(p.width, p.height) - 4)
        r == sz \div 2
        bg_color == _ensure_rgba(bg_color_in)
        icon_color == _ensure_rgba(icon_color_in)
        p1 == IconBackground(p, cx, cy, r, bg_color, style)
        line_width == Max(2, sz \div 10)
        Lines(points) ==
            Draw(Draw(p1, Line(SubSeq(points, 1, 2), icon_color, line_width)),
                 Line(SubSeq(points, 2, 3), icon_color, line_width))
        Tick(offset) ==
            Lines(<<<<cx - offset, cy>>, <<cx - offset \div 3, Plus(cy, offset, 70)>>,
                    <<cx + offset, Minus(cy, offset, 60)>>>>)
    IN  IF bg_color_in = None \/ icon_color_in = None THEN Raise("TypeError", p)
        ELSE Tick(Scaled(r, 50))

\* The method of GamePainter that draws the button of a name.
ButtonNames ==
    {"close", "settings", "play", "pause", "menu", "home", "refresh", "back", "plus",
     "minus", "check"}

ButtonMethod(p, name, center_x, center_y, size, bg_color, icon_color, style) ==
    CASE name = "close" -> draw_close_button(p, center_x, center_y, size, bg_color, icon_color, style)
      [] name = "settings" -> draw_settings_button(p, center_x, center_y, size, bg_color, icon_color, style)
      [] name = "play" -> draw_play_button(p, center_x, center_y, size, bg_color, icon_color, style)
      [] name = "pause" -> draw_pause_button(p, center_x, center_y, size, bg_color, icon_color, style)
      [] name = "menu" -> draw_menu_button(p, center_x, center_y, size, bg_color, icon_color, style)
      [] name = "home" -> draw_home_button(p, center_x, center_y, size, bg_color, icon_color, style)
      [] name = "refresh" -> draw_refresh_button(p, center_x, center_y, size, bg_color, icon_color, style)
      [] name = "back" -> draw_back_button(p, center_x, center_y, size, bg_color, icon_color, style)
      [] name = "plus" -> draw_plus_button(p, center_x, center_y, size, bg_color, icon_color, style)
      [] name = "minus" -> draw_minus_button(p, center_x, center_y, size, bg_color, icon_color, style)
      [] name = "check" -> draw_check_button(p, center_x, center_y, size, bg_color, icon_color, style)

\* The defaults of bg_color, icon_color and style in the signature of each method.
ButtonDefaults(name) ==
    CASE name \in {"close", "minus"} ->
            [bg_color |-> <<220, 60, 60, 255>>, icon_color |-> <<255, 255, 255, 255>>, style |-> "circle"]
      [] name \in {"play", "plus", "check"} ->
            [bg_color |-> <<50, 180, 50, 255>>, icon_color |-> <<255, 255, 255, 255>>, style |-> "circle"]
      [] name = "pause" ->
            [bg_color |-> <<255, 180, 50, 255>>, icon_color |-> <<255, 255, 255, 255>>, style |-> "circle"]
      [] name = "settings" ->
            [bg_color |-> None, icon_color |-> <<100, 100, 100, 255>>, style |-> "none"]
      [] name \in {"menu", "home", "refresh", "back"} ->
            [bg_color |-> None, icon_color |-> <<80, 80, 80, 255>>, style |-> "none"]

\* method(**kwargs): a keyword the method does not have is a TypeError, and a parameter
\* without a keyword takes its default.
CallButton(p, name, kwargs) ==
    IF ~(Keys(kwargs) \subseteq {"center_x", "center_y", "size", "bg_color", "icon_color", "style"})
    THEN Raise("TypeError", p)
    ELSE ButtonMethod(p, name, Kw(kwargs, "center_x", None), Kw(kwargs, "center_y", None),
                      Kw(kwargs, "size", None),
                      Kw(kwargs, "bg_color", ButtonDefaults(name).bg_color),
                      Kw(kwargs, "icon_color", ButtonDefaults(name).icon_color),
                      Kw(kwargs, "style", ButtonDefaults(name).style))

\* create_control_button(size, button_type, **kwargs): a new size x size canvas and the
\* method button_methods.get(button_type, painter.draw_close_button) called on it; a
\* name that is not in the table gives the close button.  When the constructor or the
\* method raises there is no canvas for the caller.  size and button_type given once
\* more as a keyword are a TypeError (multiple values) before the body runs.
create_control_button(size, button_type, kwargs) ==
    IF Keys(kwargs) \cap {"size", "button_type"} # {} THEN Raise("TypeError", None)
    ELSE IF Image_new_raises(size, size) THEN Raise("ValueError", None)
    ELSE Created(CallButton(GamePainter(size, size, TRANSPARENT),
                            IF button_type \in ButtonNames THEN button_type ELSE "close",
                            kwargs))

\* A caller draws one icon button on the canvas it holds, every argument given.
IconButton(p, a) ==
    ButtonMethod(p, a.button, a.center_x, a.center_y, a.size, a.bg_color, a.icon_color,
                 a.style)

DrawIconButton ==
    /\ pc = "icon"
    /\ Called(IconButton(painter, args))
    /\ UNCHANGED <<args, original_color, queue, visited>>
    /\ UNCHANGED serverVars

\* A caller asks create_control_button for a button on a canvas of its own.
CreateControlButton ==
    /\ pc = "create_control"
    /\ Made(create_control_button(args.size, args.button_type, args.kwargs))
    /\ UNCHANGED <<args, original_color, queue, visited>>
    /\ UNCHANGED serverVars

---------------------------------------------------------------------------
(* GamePainter's shapes and UI elements (draw_circle ... draw_tooltip), create_button  *)
(* and create_icon                                                                     *)

HELVETICA == "/System/Library/Fonts/Helvetica.ttc"

\* try: ImageFont.truetype(path, size) / except: ImageFont.load_default().  loaded: whether
\* truetype returns on the machine the code runs on.
LoadFont(path, size, loaded) ==
    IF loaded THEN <<"font", path, <<size>>>> ELSE <<"font", "<default>", << >>>>

\* self.draw.text((x, y), text, fill=fill, font=font); the font travels in the width field.
Text(x, y, text, fill, font) == RasterCall("text", <<<<x, y>>>>, fill, None, font, <<text>>)

\* self.draw.textbbox((0, 0), text, font=font) is PIL's: the model takes its result as an
\* input, bbox = <<x0, y0, x1, y1>>, or << >> where it raises ValueError (the bitmap
\* default font on a PIL that measures TrueType fonts only).

draw_circle(p, center_x, center_y, radius, fill_color_in, border_color_in, border_width) ==
    LET cx == Get(center_x, p.width \div 2)
        cy == Get(center_y, p.height \div 2)
        r == Get(radius, Min(p.width, p.height) \div 2 - border_width - 2)
        fill_color == _ensure_rgba(fill_color_in)
        p1 == IF border_color_in # None /\ border_width > 0
              THEN Draw(p, Ellipse(cx - r - border_width, cy - r - border_width,
                                   cx + r + border_width, cy + r + border_width,
                                   _ensure_rgba(border_color_in), None, 1))
              ELSE p
    IN  IF fill_color_in = None THEN Raise("TypeError", p)
        ELSE Draw(p1, Ellipse(cx - r, cy - r, cx + r, cy + r, fill_color, None, 1))

\* The vertices of the regular polygon: vertex i at angle radians(rotation - 90) +
\* 2 * pi * i / sides on the circle of radius r around (cx, cy); kept in this polar form.
PolygonPoints(cx, cy, r, sides, rotation) ==
    [k \in 1 .. sides |-> <<cx, cy, r, k - 1, sides, rotation>>]

draw_polygon(p, sides, center_x, center_y, radius, rotation, fill_color_in, border_color, border_width) ==
    LET cx == Get(center_x, p.width \div 2)
        cy == Get(center_y, p.height \div 2)
        r == Get(radius, Min(p.width, p.height) \div 2 - 4)
        fill_color == _ensure_rgba(fill_color_in)
    IN  IF fill_color_in = None THEN Raise("TypeError", p)
        ELSE Draw(p, Polygon(PolygonPoints(cx, cy, r, sides, rotation), fill_color,
                             border_color, border_width))

\* ButtonStyle(value): the member of the enumeration with that value, << >> where the
\* constructor raises ValueError.
ButtonStyle(value) ==
    CASE value = "flat" -> <<"FLAT">>
      [] value = "glossy" -> <<"GLOSSY">>
      [] value = "outline" -> <<"OUTLINE">>
      [] value = "gradient" -> <<"GRADIENT">>
      [] value = "pixel" -> <<"PIXEL">>
      [] OTHER -> << >>

\* style is a member of ButtonStyle ("FLAT", ...); anything else, the value string of a
\* member included, equals no member and draws no body.  The text is measured and drawn
\* after the body, so a call that raises there leaves the body on the canvas.
draw_button(p, x, y, width, height, text, style, primary_color_in, secondary_color_in, text_color, radius, loaded, bbox) ==
    LET w == OrDefault(width, p.width)
        h == OrDefault(height, p.height)
        primary_color == _ensure_rgba(primary_color_in)
        secondary_color == _ensure_rgba(secondary_color_in)
        highlight == SubSeq(primary_color, 1, Min(3, Len(primary_color))) \o <<180>>
        body == CASE style = "FLAT" ->
                        Draw(p, RoundedRect(x, y, x + w - 1, y + h - 1, radius,
                                            primary_color, None, 1))
                  [] style = "GRADIENT" ->
                        draw_rounded_rect(p, x, y, <<w>>, <<h>>, radius, primary_color,
                                          None, 0, <<"vertical">>, secondary_color)
                  [] style = "GLOSSY" ->
                        Then(draw_rounded_rect(p, x, y, <<w>>, <<h>>, radius,
                                               secondary_color, None, 0, None, None),
                             LAMBDA q : draw_rounded_rect(q, x + 2, y + 2, <<w - 4>>,
                                                          <<h \div 2 - 2>>, radius - 2,
                                                          highlight, None, 0, None, None))
                  [] style = "OUTLINE" ->
                        Draw(p, RoundedRect(x, y, x + w - 1, y + h - 1, radius,
                                            <<0, 0, 0, 0>>, primary_color, 3))
                  [] style = "PIXEL" ->
                        Draw(Draw(p, Rectangle(x, y, x + w - 1, y + h - 1, primary_color,
                                               None, 1)),
                             Rectangle(x + 2, y + 2, x + w - 3, y + h - 3, None,
                                       secondary_color, 2))
                  [] OTHER -> p
        font == LoadFont(PINGFANG, Min(h \div 2, 24), loaded)
        text_w == bbox[3] - bbox[1]
        text_h == bbox[4] - bbox[2]
        text_x == x + (w - text_w) \div 2
        text_y == y + (h - text_h) \div 2 - 2
        Labelled(b) ==
            IF Raised(b) \/ text = "" THEN b
            ELSE IF bbox = << >> THEN Raise("ValueError", b)
            ELSE IF text_color = None THEN Raise("TypeError", b)
            ELSE Draw(b, Text(text_x, text_y, text, _ensure_rgba(text_color), font))
    IN  IF primary_color_in = None \/ secondary_color_in = None THEN Raise("TypeError", p)
        ELSE Labelled(body)

\* The vertices of the star: vertex i at angle pi * i / points - pi / 2 and at radius
\* outer_r (even i) or inner_r (odd i); kept in this polar form.
StarPoints(cx, cy, outer_r, inner_r, points) ==
    [k \in 1 .. 2 * points |->
        <<cx, cy, IF (k - 1) % 2 = 0 THEN outer_r ELSE inner_r, k - 1, points>>]

\* inner_ratio is the float 0.01 * inner_ratio_num (0.4 is 40).
draw_star(p, center_x, center_y, size, points, fill_color_in, border_color, border_width, inner_ratio_num) ==
    LET cx == Get(center_x, p.width \div 2)
        cy == Get(center_y, p.height \div 2)
        outer_r == Get(size, Min(p.width, p.height) \div 2 - 4)
        fill_color == _ensure_rgba(fill_color_in)
    IN  IF fill_color_in = None THEN Raise("TypeError", p)
        ELSE Draw(p, Polygon(StarPoints(cx, cy, outer_r, Scaled(outer_r, inner_ratio_num),
                                        points),
                             fill_color, border_color, border_width))

draw_arrow(p, direction, x, y, width, height, fill_color_in, style) ==
    LET w == OrDefault(width, p.width)
        h == OrDefault(height, p.height)
        fill_color == _ensure_rgba(fill_color_in)
        thickness == Min(w, h) \div 4
        chevron == CASE direction = "right" ->
                           <<<<x + w \div 4, y + h \div 6>>,
                             <<x + (w * 3) \div 4, y + h \div 2>>,
                             <<x + w \div 4, y + (h * 5) \div 6>>>>
                     [] direction = "left" ->
                           <<<<x + (w * 3) \div 4, y + h \div 6>>,
                             <<x + w \div 4, y + h \div 2>>,
                             <<x + (w * 3) \div 4, y + (h * 5) \div 6>>>>
                     [] direction = "up" ->
                           <<<<x + w \div 6, y + (h * 3) \div 4>>,
                             <<x + w \div 2, y + h \div 4>>,
                             <<x + (w * 5) \div 6, y + (h * 3) \div 4>>>>
                     [] OTHER ->
                           <<<<x + w \div 6, y + h \div 4>>,
                             <<x + w \div 2, y + (h * 3) \div 4>>,
                             <<x + (w * 5) \div 6, y + h \div 4>>>>
        margin == Min(w, h) \div 6
        triangle == CASE direction = "right" ->
                            <<<<x + margin, y + margin>>, <<x + w - margin, y + h \div 2>>,
                              <<x + margin, y + h - margin>>>>
                      [] direction = "left" ->
                            <<<<x + w - margin, y + margin>>, <<x + margin, y + h \div 2>>,
                              <<x + w - margin, y + h - margin>>>>
                      [] direction = "up" ->
                            <<<<x + margin, y + h - margin>>, <<x + w \div 2, y + margin>>,
                              <<x + w - margin, y + h - margin>>>>
                      [] OTHER ->
                            <<<<x + margin, y + margin>>, <<x + w \div 2, y + h - margin>>,
                              <<x + w - margin, y + margin>>>>
    IN  IF fill_color_in = None THEN Raise("TypeError", p)
        ELSE IF style = "chevron"
        THEN Draw(p, RasterCall("line", chevron, fill_color, None, thickness, <<"curve">>))
        ELSE IF style = "solid" THEN Draw(p, Polygon(triangle, fill_color, None, 1))
        ELSE Draw(p, Polygon(triangle, None, fill_color, 3))

\* The rim, the face and the highlight arc are drawn before the symbol is measured.
draw_coin(p, center_x, center_y, radius, gold_color_in, show_symbol, symbol, loaded, bbox) ==
    LET cx == Get(center_x, p.width \div 2)
        cy == Get(center_y, p.height \div 2)
        r == Get(radius, Min(p.width, p.height) \div 2 - 4)
        gold_color == _ensure_rgba(gold_color_in)
        dark_gold == <<218, 165, 32, 255>>
        light_gold == <<255, 239, 180, 255>>
        p1 == Draw(p, Ellipse(cx - r, cy - r, cx + r, cy + r, dark_gold, None, 1))
        text_w == bbox[3] - bbox[1]
        text_h == bbox[4] - bbox[2]
        Symbol(p3, font_size) ==
            IF ~show_symbol THEN p3
            ELSE IF bbox = << >> THEN Raise("ValueError", p3)
            ELSE Draw(p3, Text(cx - text_w \div 2, cy - text_h \div 2 - 2, symbol, dark_gold,
                               LoadFont(HELVETICA, font_size, loaded)))
        Face(inner_r, highlight_r, font_size) ==
            Symbol(Draw(Draw(p1, Ellipse(cx - inner_r, cy - inner_r, cx + inner_r,
                                         cy + inner_r, gold_color, None, 1)),
                        RasterCall("arc", <<<<cx - highlight_r, cy - highlight_r>>,
                                            <<cx + highlight_r, cy + highlight_r>>>>,
                                   light_gold, None, 2, <<200, 340>>)),
                   font_size)
    IN  IF gold_color_in = None THEN Raise("TypeError", p)
        ELSE Face(Scaled(r, 85), Scaled(r, 70), Scaled(r, 120))

\* light, mid, dark = colors.get(gem_type, colors["diamond"])
GemColors(gem_type) ==
    CASE gem_type = "ruby" ->
            <<<<255, 100, 100, 255>>, <<200, 50, 50, 255>>, <<150, 30, 30, 255>>>>
      [] gem_type = "emerald" ->
            <<<<100, 255, 150, 255>>, <<50, 200, 100, 255>>, <<30, 150, 80, 255>>>>
      [] gem_type = "sapphire" ->
            <<<<100, 150, 255, 255>>, <<50, 100, 200, 255>>, <<30, 80, 180, 255>>>>
      [] OTHER ->
            <<<<200, 230, 255, 255>>, <<150, 200, 255, 255>>, <<100, 180, 255, 255>>>>

\* top and the centre are pairs of ints; bottom, left, right and the highlight hold the
\* floats cy + s * 0.6, cx - s * 0.7, ...
draw_gem(p, center_x, center_y, size, gem_type) ==
    LET cx == Get(center_x, p.width \div 2)
        cy == Get(center_y, p.height \div 2)
        sz == Get(size, Min(p.width, p.height) \div 2 - 4)
        light == GemColors(gem_type)[1]
        mid == GemColors(gem_type)[2]
        dark == GemColors(gem_type)[3]
        top == <<cx, cy - sz>>
        highlight == <<<<Minus(cx, sz, 15), Minus(cy, sz, 50)>>,
                       <<Plus(cx, sz, 10), Minus(cy, sz, 60)>>,
                       <<Minus(cx, sz, 10), Minus(cy, sz, 30)>>>>
        Facets(bottom, left, right) ==
            Draw(Draw(Draw(Draw(Draw(p, Polygon(<<top, left, <<cx, cy>>>>, light, None, 1)),
                                Polygon(<<top, right, <<cx, cy>>>>, mid, None, 1)),
                           Polygon(<<left, bottom, <<cx, cy>>>>, mid, None, 1)),
                      Polygon(<<right, bottom, <<cx, cy>>>>, dark, None, 1)),
                 Polygon(highlight, <<255, 255, 255, 150>>, None, 1))
    IN  Facets(<<cx, Plus(cy, sz, 60)>>, <<Minus(cx, sz, 70), Minus(cy, sz, 20)>>,
               <<Plus(cx, sz, 70), Minus(cy, sz, 20)>>)

\* The outline of the heart: one vertex for each t in range(0, 360, 5), by the parametric
\* equation in sin and cos of radians(t), scaled by s / 18 around (cx, cy); kept as
\* <<cx, cy, s, t>>.
HeartPoints(cx, cy, sz) == [k \in 1 .. 72 |-> <<cx, cy, sz, 5 * (k - 1)>>]

draw_heart(p, center_x, center_y, size, fill_color_in, border_color) ==
    LET cx == Get(center_x, p.width \div 2)
        cy == Get(center_y, p.height \div 2)
        sz == Get(size, Min(p.width, p.height) \div 2 - 4)
        fill_color == _ensure_rgba(fill_color_in)
        p1 == Draw(p, Polygon(HeartPoints(cx, cy, sz), fill_color, border_color, 2))
    IN  IF fill_color_in = None THEN Raise("TypeError", p)
        ELSE Draw(p1, Ellipse(Minus(cx, sz, 40), Minus(cy, sz, 50), Minus(cx, sz, 10),
                              Minus(cy, sz, 20), <<255, 255, 255, 100>>, None, 1))

draw_shield(p, x, y, width, height, fill_color_in, border_color_in) ==
    LET w == OrDefault(width, p.width)
        h == OrDefault(height, p.height)
        cx == x + w \div 2
        fill_color == _ensure_rgba(fill_color_in)
        border_color == _ensure_rgba(border_color_in)
        points == <<<<cx, y + 4>>, <<x + w - 4, Plus(y, h, 15)>>,
                    <<x + w - 4, Plus(y, h, 50)>>, <<cx, y + h - 4>>,
                    <<x + 4, Plus(y, h, 50)>>, <<x + 4, Plus(y, h, 15)>>>>
        p1 == Draw(p, Polygon(points, fill_color, border_color, 3))
        p2 == Draw(p1, Line(<<<<cx, Plus(y, h, 15)>>, <<cx, Plus(y, h, 75)>>>>,
                            border_color, 2))
    IN  IF fill_color_in = None \/ border_color_in = None THEN Raise("TypeError", p)
        ELSE Draw(p2, Line(<<<<Plus(x, w, 20), Plus(y, h, 35)>>,
                             <<Plus(x, w, 80), Plus(y, h, 35)>>>>, border_color, 2))

\* bg_color, border_color = rarity_colors.get(rarity, rarity_colors["common"])
RarityColors(rarity) ==
    CASE rarity = "uncommon" -> <<<<30, 100, 30, 255>>, <<50, 180, 50, 255>>>>
      [] rarity = "rare" -> <<<<30, 60, 150, 255>>, <<50, 100, 220, 255>>>>
      [] rarity = "epic" -> <<<<100, 50, 150, 255>>, <<160, 80, 220, 255>>>>
      [] rarity = "legendary" -> <<<<180, 120, 30, 255>>, <<255, 200, 50, 255>>>>
      [] OTHER -> <<<<80, 80, 80, 255>>, <<120, 120, 120, 255>>>>

\* for i in range(3): one shine line from (shine_x, y), shine_x = x + w // 4 + i * w // 4
RECURSIVE ShineLines(_, _, _, _, _, _)
ShineLines(p, x, y, w, h, i) ==
    IF i >= 3 THEN p
    ELSE LET shine_x == x + w \div 4 + (i * w) \div 4
         IN  ShineLines(Draw(p, Line(<<<<shine_x, y>>,
                                       <<shine_x + w \div 8, y + h \div 3>>>>,
                                     <<255, 255, 255, 100 - i * 30>>, 2)),
                        x, y, w, h, i + 1)

draw_icon_slot(p, x, y, width, height, rarity, show_shine) ==
    LET w == OrDefault(width, p.width)
        h == OrDefault(height, p.height)
        bg_color == RarityColors(rarity)[1]
        border_color == RarityColors(rarity)[2]
        p1 == Draw(p, RoundedRect(x, y, x + w - 1, y + h - 1, 4, bg_color, None, 1))
        p2 == Draw(p1, RoundedRect(x + 2, y + 2, x + w - 3, y + h - 3, 3, None,
                                   <<40, 40, 40, 255>>, 1))
        p3 == Draw(p2, RoundedRect(x, y, x + w - 1, y + h - 1, 4, None, border_color, 2))
    IN  IF show_shine /\ rarity \in {"epic", "legendary"}
        THEN ShineLines(p3, x, y, w, h, 0)
        ELSE p3

\* The hexagon is drawn on a canvas of its own, temp_painter = GamePainter(w, h, ...), which
\* raises ValueError on a negative w or h, and that image is pasted at (x, y) with itself
\* as the mask.
draw_minimap_frame(p, x, y, width, height, shape, border_color_in) ==
    LET w == OrDefault(width, p.width)
        h == OrDefault(height, p.height)
        cx == x + w \div 2
        cy == y + h \div 2
        r == Min(w, h) \div 2 - 4
        border_color == _ensure_rgba(border_color_in)
        map_bg == <<80, 120, 80, 255>>
        temp_painter == draw_polygon(GamePainter(w, h, <<0, 0, 0, 0>>), 6, <<w \div 2>>,
                                     <<h \div 2>>, <<r>>, 30, map_bg, border_color, 3)
        frame == CASE shape = "circle" ->
                         Draw(Draw(p, Ellipse(cx - r, cy - r, cx + r, cy + r, map_bg,
                                              None, 1)),
                              Ellipse(cx - r, cy - r, cx + r, cy + r, None, border_color,
                                      3))
                   [] shape = "square" ->
                         Draw(Draw(p, RoundedRect(x + 4, y + 4, x + w - 5, y + h - 5, 4,
                                                  map_bg, None, 1)),
                              RoundedRect(x + 4, y + 4, x + w - 5, y + h - 5, 4, None,
                                          border_color, 3))
                   [] OTHER ->
                         IF Image_new_raises(w, h) THEN Raise("ValueError", p)
                         ELSE Draw(p, RasterCall("paste_image", <<<<x, y>>>>, None, None,
                                                 0, <<temp_painter.image>>))
    IN  IF border_color_in = None THEN Raise("TypeError", p)
        ELSE Then(frame,
                  LAMBDA q : Draw(Draw(q, Ellipse(cx - 3, cy - 3, cx + 3, cy + 3,
                                                  <<255, 255, 255, 255>>, None, 1)),
                                  Polygon(<<<<cx, cy - 8>>, <<cx - 4, cy - 2>>,
                                            <<cx + 4, cy - 2>>>>,
                                          <<255, 200, 50, 255>>, None, 1)))

\* bg_color, border_color = style_colors.get(style, style_colors["modern"])
DialogColors(style) ==
    CASE style = "fantasy" -> <<<<60, 40, 30, 230>>, <<180, 140, 100, 255>>>>
      [] style = "scifi" -> <<<<20, 30, 50, 230>>, <<0, 200, 255, 255>>>>
      [] style = "pixel" -> <<<<40, 40, 60, 255>>, <<150, 150, 180, 255>>>>
      [] OTHER -> <<<<30, 30, 30, 230>>, <<100, 100, 100, 255>>>>

draw_dialog_box(p, x, y, width, height, style, show_arrow) ==
    LET w == OrDefault(width, p.width)
        h == OrDefault(height, p.height)
        bg_color == DialogColors(style)[1]
        border_color == DialogColors(style)[2]
        radius == IF style = "pixel" THEN 0 ELSE 12
        box == IF style = "pixel"
               THEN Draw(Draw(p, Rectangle(x, y, x + w - 1, y + h - 1, bg_color, None, 1)),
                         Rectangle(x, y, x + w - 1, y + h - 1, None, border_color, 3))
               ELSE Draw(Draw(p, RoundedRect(x, y, x + w - 1, y + h - 1, radius, bg_color,
                                             None, 1)),
                         RoundedRect(x, y, x + w - 1, y + h - 1, radius, None,
                                     border_color, 2))
        arrow_x == x + w \div 4
    IN  IF show_arrow
        THEN Draw(box, Polygon(<<<<arrow_x, y + h - 1>>, <<arrow_x + 15, y + h - 1>>,
                                 <<arrow_x + 7, y + h + 12>>>>, bg_color, border_color, 1))
        ELSE box

\* rarity_title_colors.get(rarity, (180, 180, 180, 255))
TitleColor(rarity) ==
    CASE rarity = "uncommon" -> <<30, 255, 30, 255>>
      [] rarity = "rare" -> <<50, 150, 255, 255>>
      [] rarity = "epic" -> <<180, 80, 255, 255>>
      [] rarity = "legendary" -> <<255, 200, 50, 255>>
      [] OTHER -> <<180, 180, 180, 255>>

\* The two attribute lines are literals of the code, written here with \u escapes.
draw_tooltip(p, x, y, width, height, title, rarity, loaded) ==
    LET w == OrDefault(width, p.width)
        h == OrDefault(height, p.height)
        p1 == Draw(p, RoundedRect(x, y, x + w - 1, y + h - 1, 4, <<20, 20, 25, 240>>,
                                  None, 1))
        p2 == Draw(p1, RoundedRect(x, y, x + w - 1, y + h - 1, 4, None,
                                   <<60, 60, 70, 255>>, 1))
        font == LoadFont(PINGFANG, 14, loaded)
        p3 == Draw(p2, Text(x + 10, y + 8, title, TitleColor(rarity), font))
        p4 == Draw(p3, Line(<<<<x + 8, y + 28>>, <<x + w - 8, y + 28>>>>,
                            <<60, 60, 70, 255>>, 1))
        small_font == LoadFont(PINGFANG, 11, loaded)
        p5 == Draw(p4, Text(x + 10, y + 35, "+10 \\u653b\\u51fb\\u529b",
                            <<150, 255, 150, 255>>, small_font))
    IN  Draw(p5, Text(x + 10, y + 52, "+5 \\u66b4\\u51fb\\u7387", <<255, 200, 100, 255>>,
                      small_font))

\* primary, secondary = color_presets.get(color, color_presets["blue"])
ColorPresets(color) ==
    CASE color = "green" -> <<<<50, 205, 50, 255>>, <<30, 150, 30, 255>>>>
      [] color = "red" -> <<<<220, 60, 60, 255>>, <<180, 30, 30, 255>>>>
      [] color = "orange" -> <<<<255, 165, 0, 255>>, <<220, 120, 0, 255>>>>
      [] color = "purple" -> <<<<138, 43, 226, 255>>, <<100, 30, 180, 255>>>>
      [] OTHER -> <<<<65, 105, 225, 255>>, <<30, 60, 180, 255>>>>

\* create_button(width, height, text, style, color): a new canvas and draw_button on it
\* with the preset colours; GamePainter raises ValueError on a negative size and
\* ButtonStyle(style) on a name that is no style.  No canvas is returned when the call
\* raises.
create_button(width, height, text, style, color, loaded, bbox) ==
    IF Image_new_raises(width, height) \/ ButtonStyle(style) = << >>
    THEN Raise("ValueError", None)
    ELSE Created(draw_button(GamePainter(width, height, TRANSPARENT), 0, 0, None, None,
                             text, ButtonStyle(style)[1], ColorPresets(color)[1],
                             ColorPresets(color)[2], <<255, 255, 255, 255>>, 8, loaded,
                             bbox))

\* The icon methods called with keyword arguments (**kwargs): a keyword the method does
\* not have, or one given twice, is a TypeError; a parameter without a keyword takes the
\* default of the signature.
CallIcon(p, icon_type, size, kwargs, loaded, bbox) ==
    CASE icon_type = "star" ->
            IF ~(Keys(kwargs) \subseteq {"center_x", "center_y", "size", "points",
                                         "fill_color", "border_color", "border_width",
                                         "inner_ratio"})
            THEN Raise("TypeError", p)
            ELSE draw_star(p, Kw(kwargs, "center_x", None), Kw(kwargs, "center_y", None),
                           Kw(kwargs, "size", None), Kw(kwargs, "points", 5),
                           Kw(kwargs, "fill_color", <<255, 215, 0, 255>>),
                           Kw(kwargs, "border_color", <<218, 165, 32, 255>>),
                           Kw(kwargs, "border_width", 2), Kw(kwargs, "inner_ratio", 40))
      [] icon_type = "coin" ->
            IF ~(Keys(kwargs) \subseteq {"center_x", "center_y", "radius", "gold_color",
                                         "show_symbol", "symbol"})
            THEN Raise("TypeError", p)
            ELSE draw_coin(p, Kw(kwargs, "center_x", None), Kw(kwargs, "center_y", None),
                           Kw(kwargs, "radius", None),
                           Kw(kwargs, "gold_color", <<255, 215, 0, 255>>),
                           Kw(kwargs, "show_symbol", TRUE), Kw(kwargs, "symbol", "$"),
                           loaded, bbox)
      [] icon_type = "gem" ->
            IF ~(Keys(kwargs) \subseteq {"center_x", "center_y", "size", "gem_type"})
            THEN Raise("TypeError", p)
            ELSE draw_gem(p, Kw(kwargs, "center_x", None), Kw(kwargs, "center_y", None),
                          Kw(kwargs, "size", None), Kw(kwargs, "gem_type", "diamond"))
      [] icon_type = "heart" ->
            IF ~(Keys(kwargs) \subseteq {"center_x", "center_y", "size", "fill_color",
                                         "border_color"})
            THEN Raise("TypeError", p)
            ELSE draw_heart(p, Kw(kwargs, "center_x", None), Kw(kwargs, "center_y", None),
                            Kw(kwargs, "size", None),
                            Kw(kwargs, "fill_color", <<255, 50, 80, 255>>),
                            Kw(kwargs, "border_color", <<200, 30, 60, 255>>))
      [] icon_type = "shield" ->
            IF ~(Keys(kwargs) \subseteq {"x", "y", "fill_color", "border_color"})
            THEN Raise("TypeError", p)
            ELSE draw_shield(p, Kw(kwargs, "x", 0), Kw(kwargs, "y", 0), <<size>>, <<size>>,
                             Kw(kwargs, "fill_color", <<70, 130, 180, 255>>),
                             Kw(kwargs, "border_color", <<192, 192, 192, 255>>))
      [] icon_type = "arrow" ->
            IF ~(Keys(kwargs) \subseteq {"direction", "x", "y", "fill_color", "style"})
            THEN Raise("TypeError", p)
            ELSE draw_arrow(p, Kw(kwargs, "direction", "right"), Kw(kwargs, "x", 0),
                            Kw(kwargs, "y", 0), <<size>>, <<size>>,
                            Kw(kwargs, "fill_color", <<255, 165, 0, 255>>),
                            Kw(kwargs, "style", "solid"))
      [] OTHER -> p

\* create_icon(size, icon_type, **kwargs): a new size x size canvas and the icon drawn on
\* it; a type that is not one of the six gives the blank canvas.  size and icon_type are
\* parameters of create_icon itself: given once more as a keyword, the call is a
\* TypeError (multiple values) before its body runs.
create_icon(size, icon_type, kwargs, loaded, bbox) ==
    IF Keys(kwargs) \cap {"size", "icon_type"} # {} THEN Raise("TypeError", None)
    ELSE IF Image_new_raises(size, size) THEN Raise("ValueError", None)
    ELSE Created(CallIcon(GamePainter(size, size, TRANSPARENT), icon_type, size, kwargs,
                          loaded, bbox))

\* A caller draws one of the composites that take a width and a height on the canvas it
\* holds, the colours left at their defaults.
Composite(p, a) ==
    CASE a.shape = "draw_button" ->
            draw_button(p, a.x, a.y, a.width, a.height, a.text, a.style,
                        <<65, 105, 225, 255>>, <<30, 60, 180, 255>>,
                        <<255, 255, 255, 255>>, 8, a.loaded, a.bbox)
      [] a.shape = "draw_arrow" ->
            draw_arrow(p, a.direction, a.x, a.y, a.width, a.height, <<255, 165, 0, 255>>,
                       a.style)
      [] a.shape = "draw_shield" ->
            draw_shield(p, a.x, a.y, a.width, a.height, <<70, 130, 180, 255>>,
                        <<192, 192, 192, 255>>)
      [] a.shape = "draw_icon_slot" ->
            draw_icon_slot(p, a.x, a.y, a.width, a.height, a.style, a.flag)
      [] a.shape = "draw_minimap_frame" ->
            draw_minimap_frame(p, a.x, a.y, a.width, a.height, a.style,
                               <<200, 180, 150, 255>>)
      [] a.shape = "draw_dialog_box" ->
            draw_dialog_box(p, a.x, a.y, a.width, a.height, a.style, a.flag)
      [] a.shape = "draw_tooltip" ->
            draw_tooltip(p, a.x, a.y, a.width, a.height, a.text, a.style, a.loaded)

DrawComposite ==
    /\ pc = "composite"
    /\ Called(Composite(painter, args))
    /\ UNCHANGED <<args, original_color, queue, visited>>
    /\ UNCHANGED serverVars

\* A caller asks create_button for a button on a canvas of its own.
CreateButton ==
    /\ pc = "create_button"
    /\ Made(create_button(args.width, args.height, args.text, args.style, args.color,
                          args.loaded, args.bbox))
    /\ UNCHANGED <<args, original_color, queue, visited>>
    /\ UNCHANGED serverVars

\* A caller asks create_icon for an icon on a canvas of its own.
CreateIcon ==
    /\ pc = "create_icon"
    /\ Made(create_icon(args.size, args.icon_type, args.kwargs, args.loaded, args.bbox))
    /\ UNCHANGED <<args, original_color, queue, visited>>
    /\ UNCHANGED serverVars

---------------------------------------------------------------------------
(* GamePainter.pen_fill, one action per step of the call *)

\* The cap of the fill loop (the literal in the while condition).
FILL_LIMIT == 100000

InCanvas_wrap(p, px, py) ==
    ~(px < -p.width \/ px >= p.width \/ py < -p.height \/ py >= p.height)

\* the loop's bounds test: not (px < 0 or px >= width or py < 0 or py >= height)
InCanvas(p, px, py) == ~(px < 0 \/ px >= p.width \/ py < 0 \/ py >= p.height)

Neighbours8(px, py) ==
    <<<<px + 1, py>>, <<px - 1, py>>, <<px, py + 1>>, <<px, py - 1>>,
      <<px + 1, py + 1>>, <<px - 1, py - 1>>>>

\* The four coordinates the loop appends, in the order of the code.
Neighbours(px, py) == <<<<px + 1, py>>, <<px - 1, py>>, <<px, py + 1>>, <<px, py - 1>>>>

LoopCondition_le(q, v, limit) == q # << >> /\ Cardinality(v) <= limit

\* while queue and len(visited) < 100000
LoopCondition(q, v, limit) == q # << >> /\ Cardinality(v) < limit

Popleft_keep(q) == q

\* what is left of the deque after popleft()
Popleft(q) == Tail(q)

\* Entry of pen_fill: normalise the colour, read the seed pixel (IndexError: return),
\* return when the seed already has the colour, else start the queue.
FillStart(wraps) ==
    /\ pc = "ready"
    /\ LET color == _ensure_rgba(args.color)
       IN  /\ args' = [args EXCEPT !.color = color]
           /\ IF PixelAccessRaises(painter.image, args.x, args.y, wraps)
              THEN /\ pc' = "done"
                   /\ UNCHANGED <<original_color, queue, visited>>
                   /\ UNCHANGED painter
              ELSE \E image \in Developed(painter.image, args.x, args.y) :
                      /\ painter' = [painter EXCEPT !.image = image]
                      /\ original_color' = getpixel(image, args.x, args.y)
                      /\ IF original_color' = color
                         THEN pc' = "done" /\ UNCHANGED <<queue, visited>>
                         ELSE /\ queue' = <<<<args.x, args.y>>>>
                              /\ visited' = {}
                              /\ pc' = "loop"
    /\ UNCHANGED serverVars

\* One iteration of the while loop.
FillLoop ==
    /\ pc = "loop"
    /\ LoopCondition(queue, visited, args.limit)
    /\ LET px == Head(queue)[1]
           py == Head(queue)[2]
       IN  IF <<px, py>> \in visited \/ ~InCanvas(painter, px, py)
           THEN /\ queue' = Popleft(queue)
                /\ UNCHANGED <<painter, visited>>
           ELSE \E image \in Developed(painter.image, px, py) :
                   IF getpixel(image, px, py) # original_color
                   THEN /\ queue' = Popleft(queue)
                        /\ painter' = [painter EXCEPT !.image = image]
                        /\ UNCHANGED visited
                   ELSE /\ painter' = [painter EXCEPT
                                          !.image = putpixel(image, px, py, args.color)]
                        /\ visited' = visited \cup {<<px, py>>}
                        /\ queue' = Popleft(queue) \o Neighbours(px, py)
    /\ UNCHANGED <<args, pc, original_color>>
    /\ UNCHANGED serverVars

\* The loop condition fails: the draw object is rebuilt and the call returns.
FillExit ==
    /\ pc = "loop"
    /\ ~LoopCondition(queue, visited, args.limit)
    /\ pc' = "done"
    /\ UNCHANGED <<painter, args, original_color, queue, visited>>
    /\ UNCHANGED serverVars

---------------------------------------------------------------------------
(* A caller working on one canvas: draws, flood fills and serialisations in any order *)

MaxOps == 3

\* The drawing calls the caller chooses from (some reach outside the canvas); pen_line
\* is called with width 1.
\* The shapes and UI elements are called with no argument, each parameter at the default
\* of its signature; env = <<loaded, bbox>> is what the font files and textbbox do.
CanvasDrawing(p, which, env) ==
    CASE which = "pen_rect" -> pen_rect(p, 1, 0, 4, 3, RED3, None, 0)
      [] which = "pen_line" -> pen_line(p, -1, -1, 5, 5, BLACK, 1)
      [] which = "draw_progress_bar" ->
            draw_progress_bar(p, 0, 0, None, None, 50, <<60, 60, 60, 255>>, <<50, 205, 50, 255>>, <<100, 100, 100, 255>>, 2, TRUE)
      [] which = "draw_health_bar" -> draw_health_bar(p, 0, 0, None, None, 75, TRUE, 10)
      [] which = "draw_circle" ->
            draw_circle(p, None, None, None, <<100, 149, 237, 200>>,
                        <<100, 149, 237, 255>>, 2)
      [] which = "draw_polygon" ->
            draw_polygon(p, 6, None, None, None, 0, <<100, 149, 237, 255>>, None, 0)
      [] which = "draw_button" ->
            draw_button(p, 0, 0, None, None, "", "GRADIENT", <<65, 105, 225, 255>>,
                        <<30, 60, 180, 255>>, <<255, 255, 255, 255>>, 8, env[1], env[2])
      [] which = "draw_star" ->
            draw_star(p, None, None, None, 5, <<255, 215, 0, 255>>,
                      <<218, 165, 32, 255>>, 2, 40)
      [] which = "draw_arrow" ->
            draw_arrow(p, "right", 0, 0, None, None, <<255, 165, 0, 255>>, "solid")
      [] which = "draw_coin" ->
            draw_coin(p, None, None, None, <<255, 215, 0, 255>>, TRUE, "$", env[1], env[2])
      [] which = "draw_gem" -> draw_gem(p, None, None, None, "diamond")
      [] which = "draw_heart" ->
            draw_heart(p, None, None, None, <<255, 50, 80, 255>>, <<200, 30, 60, 255>>)
      [] which = "draw_shield" ->
            draw_shield(p, 0, 0, None, None, <<70, 130, 180, 255>>,
                        <<192, 192, 192, 255>>)
      [] which = "draw_icon_slot" -> draw_icon_slot(p, 0, 0, None, None, "common", FALSE)
      [] which = "draw_minimap_frame" ->
            draw_minimap_frame(p, 0, 0, None, None, "circle", <<200, 180, 150, 255>>)
      [] which = "draw_dialog_box" -> draw_dialog_box(p, 0, 0, None, None, "modern", TRUE)
      [] which = "draw_tooltip" ->
            draw_tooltip(p, 0, 0, None, None, "\\u9053\\u5177\\u540d\\u79f0", "rare", env[1])

\* A call that raises leaves the canvas as it is at the raise, and the caller goes on
\* with it; out is then the call and its exception.  log is the kind of each call made
\* so far: "draw", "fill" or "serialise".
\* The drawing call has ended: the canvas is as the call left it, and out holds the
\* exception of a call that raised.
Drawn(which, r) ==
    IF Raised(r)
    THEN /\ painter' = r.painter
         /\ args' = [args EXCEPT !.log = Append(@, "draw"), !.repeated = FALSE,
                                 !.out = <<<<which>>, <<"raised", r.raises>>>>]
    ELSE /\ painter' = r
         /\ args' = [args EXCEPT !.log = Append(@, "draw"), !.repeated = FALSE,
                                 !.out = None]

CanvasDraw(which, env) ==
    /\ pc = "canvas"
    /\ Len(args.log) < MaxOps
    /\ Drawn(which, CanvasDrawing(painter, which, env))
    /\ UNCHANGED <<pc, original_color, queue, visited>>
    /\ UNCHANGED serverVars

\* The caller calls pen_fill; the call then runs by FillStart, FillLoop and FillExit.
CanvasFill(x, y, color) ==
    /\ pc = "canvas"
    /\ Len(args.log) < MaxOps
    /\ args' = [args EXCEPT !.log = Append(@, "fill"), !.repeated = FALSE,
                            !.out = None, !.x = x, !.y = y,
                            !.color = color, !.limit = FILL_LIMIT, !.before = painter]
    /\ pc' = "ready"
    /\ UNCHANGED <<painter, original_color, queue, visited>>
    /\ UNCHANGED serverVars

\* pen_fill has returned to the caller; its locals are gone.
CanvasResume ==
    /\ pc = "done"
    /\ "log" \in DOMAIN args
    /\ pc' = "canvas"
    /\ original_color' = None
    /\ queue' = << >>
    /\ visited' = {}
    /\ UNCHANGED <<painter, args>>
    /\ UNCHANGED serverVars

\* save, to_bytes, to_base64 and get_data_uri all end in self.image.save(...); save takes
\* the path and meets the file system (io), the others take the format.  out is the call
\* and what it returned or raised; repeated: the call before it was the same call.
CanvasSerialise(method, file_path, format, io) ==
    /\ pc = "canvas"
    /\ Len(args.log) < MaxOps
    /\ painter' = IF method = "save" THEN save(painter, file_path, io).painter ELSE painter
    /\ args' = [args EXCEPT !.log = Append(@, "serialise"),
                            !.repeated = (args.out # None
                                          /\ args.out[1] = <<method, file_path, format, io>>),
                            !.out = <<<<method, file_path, format, io>>,
                                      Serialised(painter, method, file_path, format, io)>>]
    /\ UNCHANGED <<pc, original_color, queue, visited>>
    /\ UNCHANGED serverVars

---------------------------------------------------------------------------
(* server.py: call_tool, one action per tool branch *)

MaxDraws == 2

TextResult(status) == [status |-> status, content |-> <<"text">>]
ImageResult(status) == [status |-> status, content |-> <<"text", "image">>]

NotFound_raised == TextResult("error")

\* What "canvas_id not in canvas_storage" answers.
NotFound == TextResult("not_found")

\* (variants of the assignment: keep an entry that is already there; rebuild the dict)
Store_keep(storage, canvas_id, p) ==
    [k \in DOMAIN storage \cup {canvas_id} |->
        IF k \in DOMAIN storage THEN storage[k] ELSE p]

Store_only(storage, canvas_id, p) == [k \in {canvas_id} |-> p]

Store_all(storage, canvas_id, p) == [k \in DOMAIN storage \cup {canvas_id} |-> p]

\* dict assignment canvas_storage[canvas_id] = painter
Store(storage, canvas_id, p) ==
    [k \in DOMAIN storage \cup {canvas_id} |-> IF k = canvas_id THEN p ELSE storage[k]]

SaveResult_raised(status, io_ok) ==
    IF io_ok THEN ImageResult(status) ELSE [status |-> "raised", content |-> << >>]

\* get_output_path + GamePainter.save: the answer is text + image, or the error text when
\* the I/O raises.  The file system itself is outside the modelled state: whether the
\* write succeeds is an input (io_ok).
SaveResult(status, io_ok) == IF io_ok THEN ImageResult(status) ELSE TextResult("error")

Tool_pen_create_canvas(arguments) ==
    LET width == Get(arguments.width, 200)
        height == Get(arguments.height, 200)
        bg_color == Get(arguments.bg_color, <<0, 0, 0, 0>>)
        canvas_id == Get(arguments.canvas_id, "default")
    IN  /\ IF Image_new_raises(width, height)
           THEN /\ response' = TextResult("error")
                /\ UNCHANGED canvas_storage
           ELSE /\ canvas_storage' =
                       Store(canvas_storage, canvas_id, GamePainter(width, height, bg_color))
                /\ response' = TextResult("created")
        /\ UNCHANGED ndraws
        /\ UNCHANGED libVars

\* The part every pen draw branch shares: the existence check, then the draw on the
\* stored canvas, then the text + image answer.  `drawn` is the canvas after the draw.
Tool_pen_line(arguments) ==
    LET canvas_id == Get(arguments.canvas_id, "default")
    IN  /\ IF canvas_id \notin DOMAIN canvas_storage
           THEN response' = NotFound /\ UNCHANGED <<canvas_storage, ndraws>>
           ELSE /\ ndraws < MaxDraws
                /\ canvas_storage' = [canvas_storage EXCEPT ![canvas_id] =
                       pen_line(@, arguments.x1[1], arguments.y1[1], arguments.x2[1],
                                arguments.y2[1], Get(arguments.color, <<0, 0, 0, 255>>),
                                Get(arguments.width, 2))]
                /\ response' = ImageResult("drawn")
                /\ ndraws' = ndraws + 1
        /\ UNCHANGED libVars

Tool_pen_lines(arguments) ==
    LET canvas_id == Get(arguments.canvas_id, "default")
    IN  /\ IF canvas_id \notin DOMAIN canvas_storage
           THEN response' = NotFound /\ UNCHANGED <<canvas_storage, ndraws>>
           ELSE /\ ndraws < MaxDraws
                /\ canvas_storage' = [canvas_storage EXCEPT ![canvas_id] =
                       pen_lines(@, Get(arguments.points, << >>),
                                 Get(arguments.color, <<0, 0, 0, 255>>),
                                 Get(arguments.width, 2), Get(arguments.closed, FALSE))]
                /\ response' = ImageResult("drawn")
                /\ ndraws' = ndraws + 1
        /\ UNCHANGED libVars

\* x + width - 1 on a missing (None) number raises TypeError before anything is drawn.
BoxArgsMissing(arguments) ==
    \/ arguments.x = << >> \/ arguments.y = << >>
    \/ arguments.width = << >> \/ arguments.height = << >>

Tool_pen_rect(arguments) ==
    LET canvas_id == Get(arguments.canvas_id, "default")
        fill_color == IF Truthy(arguments.fill_color) THEN arguments.fill_color[1] ELSE None
        border_color == IF Truthy(arguments.border_color) THEN arguments.border_color[1]
                        ELSE <<0, 0, 0, 255>>
    IN  /\ IF canvas_id \notin DOMAIN canvas_storage
           THEN response' = NotFound /\ UNCHANGED <<canvas_storage, ndraws>>
           ELSE IF BoxArgsMissing(arguments)
                THEN response' = TextResult("error") /\ UNCHANGED <<canvas_storage, ndraws>>
                ELSE /\ ndraws < MaxDraws
                     /\ ndraws' = ndraws + 1
                     /\ canvas_storage' = [canvas_storage EXCEPT ![canvas_id] =
                               pen_rect(@, arguments.x[1], arguments.y[1],
                                        arguments.width[1], arguments.height[1],
                                        fill_color, border_color,
                                        Get(arguments.border_width, 2))]
                     /\ response' = ImageResult("drawn")
        /\ UNCHANGED libVars

Tool_pen_ellipse(arguments) ==
    LET canvas_id == Get(arguments.canvas_id, "default")
        fill_color == IF Truthy(arguments.fill_color) THEN arguments.fill_color[1] ELSE None
        border_color == IF Truthy(arguments.border_color) THEN arguments.border_color[1]
                        ELSE <<0, 0, 0, 255>>
    IN  /\ IF canvas_id \notin DOMAIN canvas_storage
           THEN response' = NotFound /\ UNCHANGED <<canvas_storage, ndraws>>
           ELSE IF BoxArgsMissing(arguments)
                THEN response' = TextResult("error") /\ UNCHANGED <<canvas_storage, ndraws>>
                ELSE /\ ndraws < MaxDraws
                     /\ ndraws' = ndraws + 1
                     /\ canvas_storage' = [canvas_storage EXCEPT ![canvas_id] =
                               pen_ellipse(@, arguments.x[1], arguments.y[1],
                                           arguments.width[1], arguments.height[1],
                                           fill_color, border_color,
                                           Get(arguments.border_width, 2))]
                     /\ response' = ImageResult("drawn")
        /\ UNCHANGED libVars

Tool_pen_polygon(arguments) ==
    LET canvas_id == Get(arguments.canvas_id, "default")
        fill_color == IF Truthy(arguments.fill_color) THEN arguments.fill_color[1] ELSE None
        border_color == IF Truthy(arguments.border_color) THEN arguments.border_color[1]
                        ELSE <<0, 0, 0, 255>>
    IN  /\ IF canvas_id \notin DOMAIN canvas_storage
           THEN response' = NotFound /\ UNCHANGED <<canvas_storage, ndraws>>
           ELSE /\ ndraws < MaxDraws
                /\ canvas_storage' = [canvas_storage EXCEPT ![canvas_id] =
                       pen_polygon(@, Get(arguments.points, << >>), fill_color,
                                   border_color, Get(arguments.border_width, 2))]
                /\ response' = ImageResult("drawn")
                /\ ndraws' = ndraws + 1
        /\ UNCHANGED libVars

Tool_pen_arc(arguments) ==
    LET canvas_id == Get(arguments.canvas_id, "default")
    IN  /\ IF canvas_id \notin DOMAIN canvas_storage
           THEN response' = NotFound /\ UNCHANGED <<canvas_storage, ndraws>>
           ELSE IF BoxArgsMissing(arguments)
                THEN response' = TextResult("error") /\ UNCHANGED <<canvas_storage, ndraws>>
                ELSE /\ ndraws < MaxDraws
                     /\ ndraws' = ndraws + 1
                     /\ canvas_storage' = [canvas_storage EXCEPT ![canvas_id] =
                               pen_arc(@, arguments.x[1], arguments.y[1],
                                       arguments.width[1], arguments.height[1],
                                       Get(arguments.start_angle, 0),
                                       Get(arguments.end_angle, 180),
                                       Get(arguments.color, <<0, 0, 0, 255>>),
                                       Get(arguments.line_width, 2))]
                     /\ response' = ImageResult("drawn")
        /\ UNCHANGED libVars

Tool_pen_bezier(arguments) ==
    LET canvas_id == Get(arguments.canvas_id, "default")
    IN  /\ IF canvas_id \notin DOMAIN canvas_storage
           THEN response' = NotFound /\ UNCHANGED <<canvas_storage, ndraws>>
           ELSE /\ ndraws < MaxDraws
                /\ \E pow \in PowChoices(Get(arguments.points, << >>), BEZIER_STEPS) :
                      canvas_storage' = [canvas_storage EXCEPT ![canvas_id] =
                          pen_bezier(@, Get(arguments.points, << >>),
                                     Get(arguments.color, <<0, 0, 0, 255>>),
                                     Get(arguments.width, 2), BEZIER_STEPS, pow)]
                /\ response' = ImageResult("drawn")
                /\ ndraws' = ndraws + 1
        /\ UNCHANGED libVars

Tool_pen_point(arguments) ==
    LET canvas_id == Get(arguments.canvas_id, "default")
    IN  /\ IF canvas_id \notin DOMAIN canvas_storage
           THEN response' = NotFound /\ UNCHANGED <<canvas_storage, ndraws>>
           ELSE /\ ndraws < MaxDraws
                /\ canvas_storage' = [canvas_storage EXCEPT ![canvas_id] =
                       pen_point(@, arguments.x[1], arguments.y[1],
                                 Get(arguments.color, <<0, 0, 0, 255>>),
                                 Get(arguments.size, 3))]
                /\ response' = ImageResult("drawn")
                /\ ndraws' = ndraws + 1
        /\ UNCHANGED libVars

\* loaded: whether the PingFang file loads on the machine the server runs on.
Tool_pen_text(arguments, loaded) ==
    LET canvas_id == Get(arguments.canvas_id, "default")
    IN  /\ IF canvas_id \notin DOMAIN canvas_storage
           THEN response' = NotFound /\ UNCHANGED <<canvas_storage, ndraws>>
           ELSE /\ ndraws < MaxDraws
                /\ canvas_storage' = [canvas_storage EXCEPT ![canvas_id] =
                       pen_text(@, arguments.x[1], arguments.y[1], Get(arguments.text, ""),
                                Get(arguments.color, <<0, 0, 0, 255>>),
                                Get(arguments.font_size, 16), None, loaded)]
                /\ response' = ImageResult("drawn")
                /\ ndraws' = ndraws + 1
        /\ UNCHANGED libVars

\* get_output_path(filename, output_dir): the directory output_dir or DEFAULT_OUTPUT_DIR
\* joined with the file name; a file name is <<stem, extension>> and a path is
\* <<directory, stem, extension>>.
DEFAULT_OUTPUT_DIR == "output"

get_output_path(filename, output_dir) ==
    <<IF output_dir = None \/ output_dir[1] = "" THEN DEFAULT_OUTPUT_DIR ELSE output_dir[1],
      filename[1], filename[2]>>

Tool_pen_save(arguments, io_ok) ==
    LET canvas_id == Get(arguments.canvas_id, "default")
        filename == Get(arguments.filename, <<"canvas", ".png">>)
        output_dir == arguments.output_dir
        file_path == get_output_path(filename, output_dir)
    IN  /\ IF canvas_id \notin DOMAIN canvas_storage
           THEN response' = NotFound /\ UNCHANGED canvas_storage
           ELSE LET saved == save(canvas_storage[canvas_id], file_path,
                                  IF io_ok THEN "ok" ELSE "write")
                IN  /\ canvas_storage' = [canvas_storage EXCEPT ![canvas_id] = saved.painter]
                    /\ response' = SaveResult("saved", ~Raised(saved))
        /\ UNCHANGED ndraws
        /\ UNCHANGED libVars

\* The canvas after the preset of a pen_draw_preset call has been drawn on it.
PresetDrawn(p, arguments) ==
    LET preset == Get(arguments.preset, "car")
        x == Get(arguments.x, 0)
        y == Get(arguments.y, 0)
        scale == Get(arguments.scale, 1)
        primary_color == IF Truthy(arguments.primary_color)
                         THEN arguments.primary_color[1] ELSE None
        Primary(default) == IF primary_color # None THEN primary_color ELSE default
    IN  CASE preset = "car" ->
                draw_simple_car(p, x, y, scale, Primary(<<220, 50, 50, 255>>),
                                <<150, 200, 255, 255>>)
          [] preset = "house" ->
                draw_simple_house(p, x, y, scale, Primary(<<255, 230, 180, 255>>),
                                  <<180, 80, 50, 255>>)
          [] preset = "tree" ->
                draw_simple_tree(p, x, y, scale, <<139, 90, 43, 255>>,
                                 Primary(<<50, 180, 50, 255>>))
          [] OTHER -> p

Tool_pen_draw_preset(arguments) ==
    LET canvas_id == Get(arguments.canvas_id, "default")
    IN  /\ IF canvas_id \notin DOMAIN canvas_storage
           THEN response' = NotFound /\ UNCHANGED <<canvas_storage, ndraws>>
           ELSE /\ ndraws < MaxDraws
                /\ canvas_storage' = [canvas_storage EXCEPT ![canvas_id] =
                                         PresetDrawn(@, arguments)]
                /\ response' = ImageResult("drawn")
                /\ ndraws' = ndraws + 1
        /\ UNCHANGED libVars

\* The tools that build their own canvas (draw_button ... draw_control_button): a fresh
\* GamePainter, saved to a file; the registry is not involved.
AssetTools == {"draw_button", "draw_icon", "draw_progress_bar", "draw_item_slot",
               "draw_dialog_box", "draw_minimap", "draw_tooltip", "draw_shape",
               "draw_control_button"}

Tool_asset(name, io_ok) ==
    /\ name \in AssetTools
    /\ response' = SaveResult("generated", io_ok)
    /\ UNCHANGED <<canvas_storage, ndraws>>
    /\ UNCHANGED libVars

Tool_generate_ui_kit(io_ok) ==
    /\ response' = IF io_ok THEN TextResult("generated") ELSE TextResult("error")
    /\ UNCHANGED <<canvas_storage, ndraws>>
    /\ UNCHANGED libVars

PenTools == {"pen_create_canvas", "pen_line", "pen_lines", "pen_rect", "pen_ellipse",
             "pen_polygon", "pen_arc", "pen_bezier", "pen_point", "pen_text", "pen_save",
             "pen_draw_preset"}

KnownTools == AssetTools \cup PenTools \cup {"generate_ui_kit"}

Tool_unknown(name) ==
    /\ name \notin KnownTools
    /\ response' = TextResult("unknown_tool")
    /\ UNCHANGED <<canvas_storage, ndraws>>
    /\ UNCHANGED libVars


---------------------------------------------------------------------------
(* The tool calls explored *)

OptIds == {<< >>, <<"a">>}

CreateArgs ==
    {[canvas_id |-> id, width |-> << >>, height |-> << >>, bg_color |-> << >>] : id \in OptIds}
    \cup {[canvas_id |-> << >>, width |-> <<2>>, height |-> <<1>>, bg_color |-> <<RED3>>],
          [canvas_id |-> << >>, width |-> <<-1>>, height |-> <<1>>, bg_color |-> << >>]}

LineArgs ==
    {[canvas_id |-> id, x1 |-> <<0>>, y1 |-> <<0>>, x2 |-> <<1>>, y2 |-> <<0>>,
      color |-> << >>, width |-> << >>] : id \in OptIds}

LinesArgs ==
    {[canvas_id |-> id, points |-> <<<<<<0, 0>>, <<1, 0>>, <<1, 1>>>>>>, color |-> <<RED3>>,
      width |-> <<1>>, closed |-> <<TRUE>>] : id \in OptIds}

RectArgs ==
    {[canvas_id |-> id, x |-> <<0>>, y |-> <<0>>, width |-> <<2>>, height |-> <<1>>,
      fill_color |-> <<RED3>>, border_color |-> << >>, border_width |-> <<0>>] :
        id \in OptIds}
    \cup {[canvas_id |-> id, x |-> <<1>>, y |-> <<0>>, width |-> <<1>>, height |-> <<1>>,
           fill_color |-> <<BLUE>>, border_color |-> << >>, border_width |-> <<0>>] :
            id \in OptIds}
    \cup {[canvas_id |-> id, x |-> << >>, y |-> <<0>>, width |-> <<1>>, height |-> <<1>>,
           fill_color |-> << >>, border_color |-> << >>, border_width |-> << >>] :
            id \in OptIds}

EllipseArgs ==
    {[canvas_id |-> id, x |-> <<0>>, y |-> <<0>>, width |-> <<2>>, height |-> <<2>>,
      fill_color |-> <<BLUE>>, border_color |-> <<RED3>>, border_width |-> << >>] :
        id \in OptIds}

PolygonArgs ==
    {[canvas_id |-> id, points |-> <<<<<<0, 0>>, <<2, 0>>, <<0, 2>>>>>>,
      fill_color |-> << >>, border_color |-> << >>, border_width |-> << >>] :
        id \in OptIds}

ArcArgs ==
    {[canvas_id |-> id, x |-> <<0>>, y |-> <<0>>, width |-> <<2>>, height |-> <<2>>,
      start_angle |-> << >>, end_angle |-> <<90>>, color |-> << >>,
      line_width |-> << >>] : id \in OptIds}

BezierArgs ==
    {[canvas_id |-> id, points |-> <<<<<<0, 0>>, <<0, 0>>>>>>, color |-> << >>,
      width |-> << >>] : id \in OptIds}

PointArgs ==
    {[canvas_id |-> id, x |-> <<0>>, y |-> <<0>>, color |-> <<RED3>>, size |-> << >>] :
        id \in OptIds}

TextArgs ==
    {[canvas_id |-> id, x |-> <<0>>, y |-> <<0>>, text |-> <<"hi">>, color |-> << >>,
      font_size |-> << >>] : id \in OptIds}

SaveArgs == {[canvas_id |-> id, filename |-> << >>, output_dir |-> << >>] : id \in OptIds}

PresetArgs ==
    {[canvas_id |-> id, preset |-> pr, x |-> << >>, y |-> << >>, scale |-> << >>,
      primary_color |-> << >>] : id \in OptIds, pr \in {<< >>, <<"house">>}}

ToolNames == {"draw_button", "pen_fill"}

InitServer ==
    /\ canvas_storage = << >>
    /\ response = TextResult("none")
    /\ ndraws = 0

InitLibIdle ==
    /\ painter = GamePainter(0, 0, TRANSPARENT)
    /\ args = << >>
    /\ pc = "idle"
    /\ original_color = None
    /\ queue = << >>
    /\ visited = {}

Init == InitServer /\ InitLibIdle

Next ==
    \/ \E a \in CreateArgs : Tool_pen_create_canvas(a)
    \/ \E a \in LineArgs : Tool_pen_line(a)
    \/ \E a \in LinesArgs : Tool_pen_lines(a)
    \/ \E a \in RectArgs : Tool_pen_rect(a)
    \/ \E a \in EllipseArgs : Tool_pen_ellipse(a)
    \/ \E a \in PolygonArgs : Tool_pen_polygon(a)
    \/ \E a \in ArcArgs : Tool_pen_arc(a)
    \/ \E a \in BezierArgs : Tool_pen_bezier(a)
    \/ \E a \in PointArgs : Tool_pen_point(a)
    \/ \E a \in TextArgs, loaded \in BOOLEAN : Tool_pen_text(a, loaded)
    \/ \E a \in SaveArgs, io_ok \in BOOLEAN : Tool_pen_save(a, io_ok)
    \/ \E a \in PresetArgs : Tool_pen_draw_preset(a)
    \/ \E name \in ToolNames, io_ok \in BOOLEAN : Tool_asset(name, io_ok)
    \/ \E io_ok \in BOOLEAN : Tool_generate_ui_kit(io_ok)
    \/ \E name \in ToolNames : Tool_unknown(name)

Spec == Init /\ [][Next]_vars


---------------------------------------------------------------------------
(* pen_fill explored: every two-colour canvas of FillW x 2 pixels, every seed in and *)
(* around it, a fill colour that is and one that is not on the canvas             *)

FillW == 2
FillRows == {0, 1}
MaxCap == 2

RECURSIVE PaintCells(_, _, _)
PaintCells(p, cells, k) ==
    IF k > Len(cells) THEN p
    ELSE PaintCells(IF cells[k][3] = 1
                    THEN pen_rect(p, cells[k][1], cells[k][2], 1, 1, RED, None, 0)
                    ELSE p,
                    cells, k + 1)

\* The cells of the canvas, row by row.
Cells(w, h) == [k \in 1 .. w * h |-> <<(k - 1) % w, (k - 1) \div w>>]

FillCanvases ==
    LET w == FillW
        h == Cardinality(FillRows)
    IN  {PaintCells(GamePainter(w, h, TRANSPARENT),
                    [k \in 1 .. w * h |-> <<Cells(w, h)[k][1], Cells(w, h)[k][2], m[k]>>], 1) :
            m \in [1 .. w * h -> {0, 1}]}

SeedXs == {-FillW - 1, -1} \cup (0 .. FillW)
SeedYs == {-Cardinality(FillRows) - 1, -1} \cup (0 .. Cardinality(FillRows))

InitFill ==
    /\ InitServer
    /\ painter \in FillCanvases
    /\ \E x \in SeedXs, y \in SeedYs, color \in {RED3, BLUE},
          limit \in (1 .. MaxCap) \cup {FILL_LIMIT} :
            args = [x |-> x, y |-> y, color |-> color, limit |-> limit, before |-> painter]
    /\ pc = "ready"
    /\ original_color = None
    /\ queue = << >>
    /\ visited = {}

NextFill ==
    \/ \E wraps \in BOOLEAN : FillStart(wraps)
    \/ FillLoop
    \/ FillExit

SpecFill == InitFill /\ [][NextFill]_vars

\* The loop runs until it exits: a call that has started keeps executing.
SpecFillFair == SpecFill /\ WF_vars(NextFill)


---------------------------------------------------------------------------
(* draw_progress_bar explored *)

BarOver == 2
ProgressValues == (-BarOver .. 100 + BarOver) \cup {-10, 150}

BarCanvases == {GamePainter(200, 24, TRANSPARENT), GamePainter(4, 8, TRANSPARENT)}

InitBar ==
    /\ InitServer
    /\ painter \in BarCanvases
    /\ \E progress \in ProgressValues, width \in {None, <<0>>, <<2>>, <<7>>, <<150>>},
          show_glow \in BOOLEAN, border_width \in {0, 2} :
            args = [x |-> 0, y |-> 0, width |-> width, height |-> None,
                    progress |-> progress, bg_color |-> <<60, 60, 60, 255>>,
                    fill_color |-> <<50, 205, 50, 255>>,
                    border_color |-> <<100, 100, 100, 255>>,
                    border_width |-> border_width, show_glow |-> show_glow,
                    before |-> painter]
    /\ pc = "bar"
    /\ original_color = None
    /\ queue = << >>
    /\ visited = {}

NextBar == DrawProgressBar

SpecBar == InitBar /\ [][NextBar]_vars


---------------------------------------------------------------------------
(* create_progress_bar and draw_health_bar explored *)

InitHealth ==
    /\ InitServer
    /\ \/ /\ pc = "create_bar"
          /\ painter = GamePainter(0, 0, TRANSPARENT)
          /\ \E width \in {-1, 12, 200}, height \in {8, 24}, progress \in ProgressValues,
                bar_type \in {"normal", "health"} :
                  args = [width |-> width, height |-> height, progress |-> progress,
                          bar_type |-> bar_type]
       \/ /\ pc = "health"
          /\ painter = GamePainter(24, 8, TRANSPARENT)
          /\ \E x \in {0, 1}, width \in {None, <<0>>, <<14>>}, hp_percent \in ProgressValues,
                show_segments \in BOOLEAN, segment_count \in {0, 2, 10} :
                  args = [x |-> x, y |-> 0, width |-> width, height |-> None,
                          hp_percent |-> hp_percent, show_segments |-> show_segments,
                          segment_count |-> segment_count, before |-> painter]
    /\ original_color = None
    /\ queue = << >>
    /\ visited = {}

NextHealth ==
    \/ CreateProgressBar
    \/ DrawHealthBar

SpecHealth == InitHealth /\ [][NextHealth]_vars


---------------------------------------------------------------------------
(* pen_bezier explored: 0 to 4 control points out of four, 0 .. MaxSteps steps.  From  *)
(* (1, 0) to (7, 0) in three steps the sample at t = 2/3 is (4, 0): the float sum falls *)
(* just short of 5.                                                                    *)

MaxSteps == 3

ControlPoints == {<<1, 0>>, <<7, 0>>, <<-4, -1>>, <<3, 1>>}

ControlLists ==
    UNION {[1 .. n -> ControlPoints] : n \in 0 .. 4}

InitBezier ==
    /\ InitServer
    /\ painter = GamePainter(8, 8, TRANSPARENT)
    /\ \E points \in ControlLists, steps \in 0 .. MaxSteps :
          args = [points |-> points, color |-> RED3, width |-> 2, steps |-> steps,
                  before |-> painter]
    /\ pc = "bezier"
    /\ original_color = None
    /\ queue = << >>
    /\ visited = {}

NextBezier == DrawBezier

SpecBezier == InitBezier /\ [][NextBezier]_vars


---------------------------------------------------------------------------
(* pen_lines explored: lists of 0 to 3 points, open and closed *)

LinePoints == {<<0, 0>>, <<3, 0>>, <<3, 2>>}

PointLists == UNION {[1 .. n -> LinePoints] : n \in 0 .. 3}

InitLines ==
    /\ InitServer
    /\ painter = GamePainter(8, 8, TRANSPARENT)
    /\ \E points \in PointLists, closed \in BOOLEAN, width \in {1, 2} :
          args = [points |-> points, color |-> RED3, width |-> width, closed |-> closed,
                  given |-> points, before |-> painter]
    /\ pc = "lines"
    /\ original_color = None
    /\ queue = << >>
    /\ visited = {}

NextLines == DrawLines

SpecLines == InitLines /\ [][NextLines]_vars


---------------------------------------------------------------------------
(* _ensure_rgba explored: colours of 3, 4 and 5 components *)

Channels == {0, 128, 255}

Colours ==
    [1 .. 3 -> Channels] \cup [1 .. 4 -> Channels] \cup [1 .. 5 -> {0, 255}]

InitColour ==
    /\ InitServer
    /\ painter = GamePainter(0, 0, TRANSPARENT)
    /\ \E color \in Colours : args = [color |-> color, once |-> None, twice |-> None]
    /\ pc = "rgba"
    /\ original_color = None
    /\ queue = << >>
    /\ visited = {}

NextColour ==
    \/ NormaliseColour
    \/ NormaliseAgain

SpecColour == InitColour /\ [][NextColour]_vars


---------------------------------------------------------------------------
(* Colours given to drawing operations: pen_rect and draw_progress_bar called with *)
(* 3-component and 4-component colours                                             *)

GivenColours == {RED3, BLUE}

InitPaint ==
    /\ InitServer
    /\ painter = GamePainter(24, 8, TRANSPARENT)
    /\ \/ /\ pc = "bar"
          /\ \E progress \in {0, 50, 100}, bg_color \in GivenColours,
                fill_color \in GivenColours, border_color \in GivenColours \cup {None},
                show_glow \in BOOLEAN :
                  args = [x |-> 0, y |-> 0, width |-> None, height |-> None,
                          progress |-> progress, bg_color |-> bg_color,
                          fill_color |-> fill_color, border_color |-> border_color,
                          border_width |-> 2, show_glow |-> show_glow,
                          before |-> painter]
       \/ /\ pc = "rect"
          /\ \E x \in {0, 1}, fill_color \in GivenColours \cup {None},
                border_color \in GivenColours \cup {None}, border_width \in {0, 2} :
                  args = [x |-> x, y |-> 0, width |-> 4, height |-> 3,
                          fill_color |-> fill_color, border_color |-> border_color,
                          border_width |-> border_width, before |-> painter]
    /\ original_color = None
    /\ queue = << >>
    /\ visited = {}

NextPaint ==
    \/ DrawProgressBar
    \/ DrawRect

SpecPaint == InitPaint /\ [][NextPaint]_vars


---------------------------------------------------------------------------
(* One canvas explored: up to MaxOps calls on a 2 x 1 canvas *)

\* The calls of save: a path <<directory, stem, extension>> and what the file system
\* does (a directory that cannot be made, an extension PIL has no format for); and the
\* calls of the other methods: a format name (JPEG cannot hold RGBA, xyz is no format
\* of PIL).
SaveCalls ==
    {<<<<"", "a", ".png">>, "ok">>, <<<<"sub", "a", ".png">>, "notadir">>,
     <<<<"", "a", ".txt">>, "ok">>}

FormatCalls ==
    {<<"to_bytes", "pNG">>, <<"to_bytes", "jpeg">>, <<"to_base64", "PNG">>,
     <<"to_base64", "xyz">>, <<"get_data_uri", "PNG">>, <<"get_data_uri", "gif">>}

SerialiseCalls ==
    {<<"save", c[1], "", c[2]>> : c \in SaveCalls}
        \cup {<<c[1], <<"", "", "">>, c[2], "ok">> : c \in FormatCalls}

DrawingCalls ==
    {"pen_rect", "pen_line", "draw_progress_bar", "draw_health_bar", "draw_circle",
     "draw_polygon", "draw_button", "draw_star", "draw_arrow", "draw_coin", "draw_gem",
     "draw_heart", "draw_shield", "draw_icon_slot", "draw_minimap_frame",
     "draw_dialog_box", "draw_tooltip"}

\* What the font files and textbbox do for a call: the font loads and the text is
\* measured, or, for draw_coin, which measures its symbol, the default font is used and
\* textbbox raises.
TextEnv(which) ==
    {<<TRUE, <<0, 0, 6, 8>>>>} \cup (IF which = "draw_coin" THEN {<<FALSE, << >>>>} ELSE {})

InitCanvas ==
    /\ InitServer
    /\ \E size \in {<<2, 1>>} :
          /\ painter = GamePainter(size[1], size[2], TRANSPARENT)
          /\ args = [width |-> size[1], height |-> size[2], log |-> << >>, out |-> None,
                     repeated |-> FALSE,
                     x |-> 0, y |-> 0, color |-> RED, limit |-> FILL_LIMIT,
                     before |-> painter]
    /\ pc = "canvas"
    /\ original_color = None
    /\ queue = << >>
    /\ visited = {}

NextCanvas ==
    \/ \E which \in DrawingCalls : \E env \in TextEnv(which) : CanvasDraw(which, env)
    \/ \E seed \in {<<0, 0>>, <<-1, 0>>}, color \in {BLUE} : CanvasFill(seed[1], seed[2], color)
    \/ \E wraps \in BOOLEAN : FillStart(wraps)
    \/ FillLoop
    \/ FillExit
    \/ CanvasResume
    \/ \E c \in SerialiseCalls : CanvasSerialise(c[1], c[2], c[3], c[4])

SpecCanvas == InitCanvas /\ [][NextCanvas]_vars


---------------------------------------------------------------------------
(* draw_rounded_rect explored: every gradient direction on boxes up to MaxSide high,  *)
(* with and without a border, a width or height of 0 included                        *)

MaxSide == 3

GradientStart == {<<200, 100, 0, 255>>, <<200, 100, 0, 128>>, <<200, 100, 0>>}
GradientEnd == {None, <<0, 100, 255, 255>>, <<0, 100, 255, 64>>}

Gradients == {None, <<"horizontal">>, <<"vertical">>, <<"diagonal">>, <<"radial">>}

InitGradient ==
    /\ InitServer
    /\ painter = pen_rect(GamePainter(4, MaxSide, TRANSPARENT), 0, 0, 4, 1, BLUE, None, 0)
    /\ \E width \in {<<0>>, <<3>>}, height \in {<<n>> : n \in -1 .. MaxSide},
          radius \in {0, 1}, fill_color \in GradientStart,
          gradient_end_color \in GradientEnd, gradient \in Gradients,
          border \in {<<None, 0>>, <<BLACK, 2>>} :
            args = [x |-> 0, y |-> 0, width |-> width, height |-> height, radius |-> radius,
                    fill_color |-> fill_color, border_color |-> border[1],
                    border_width |-> border[2], gradient |-> gradient,
                    gradient_end_color |-> gradient_end_color, before |-> painter]
    /\ pc = "rounded_rect"
    /\ original_color = None
    /\ queue = << >>
    /\ visited = {}

NextGradient == DrawRoundedRect

SpecGradient == InitGradient /\ [][NextGradient]_vars


---------------------------------------------------------------------------
(* call_tool as coroutines of the event loop started by main(): a request becomes a   *)
(* task, and the loop runs a task until its coroutine awaits or returns.  Here pc is  *)
(* [at: position of each task in call_tool, running: the task the loop is in], and   *)
(* args is [calls, result: per task; stale: tasks whose looked-up canvas object has   *)
(* since been replaced in the registry; served: the calls answered, in order].        *)

Tasks == {"t1", "t2"}

MaxCalls == 3

AwaitPoints_checked == {"checked"}

\* The positions of call_tool at which the coroutine awaits.  Its body holds no await,
\* async with or async for, from the first branch to the except clause.
AwaitPoints == {}

LoopCalls ==
    {[tool |-> "pen_create_canvas", arguments |-> a] : a \in CreateArgs}
    \cup {[tool |-> "pen_rect", arguments |-> a] :
            a \in {b \in RectArgs : b.fill_color # <<BLUE>>}}
    \cup {[tool |-> "pen_save", arguments |-> a] : a \in SaveArgs}
    \cup {[tool |-> "pen_draw_preset", arguments |-> a] :
            a \in {b \in PresetArgs : b.preset # << >>}}

CanvasIdOf(call) == Get(call.arguments.canvas_id, "default")

CanRun(t) == pc.running \in {"none", t}

\* Task t reaches a position: the loop stays in it unless it awaits there or has returned.
Moved(t, position) ==
    [at |-> [pc.at EXCEPT ![t] = position],
     running |-> IF position \in AwaitPoints \cup {"idle"} THEN "none" ELSE t]

\* The loop reads a request and creates the task that will run call_tool for it.
Arrive(t, call) ==
    /\ pc.running = "none"
    /\ pc.at[t] = "idle"
    /\ Len(args.served) + Cardinality({u \in Tasks : pc.at[u] # "idle"}) < MaxCalls
    /\ pc' = [pc EXCEPT !.at[t] = "ready"]
    /\ args' = [args EXCEPT !.calls[t] = call]
    /\ UNCHANGED <<painter, original_color, queue, visited>>
    /\ UNCHANGED serverVars

\* if canvas_id not in canvas_storage: return ...; painter = canvas_storage[canvas_id]
HandlerCheck(t) ==
    /\ CanRun(t)
    /\ pc.at[t] = "ready"
    /\ args.calls[t].tool # "pen_create_canvas"
    /\ IF CanvasIdOf(args.calls[t]) \notin DOMAIN canvas_storage
       THEN /\ pc' = Moved(t, "answered")
            /\ args' = [args EXCEPT !.result[t] = NotFound]
       ELSE /\ pc' = Moved(t, "checked")
            /\ UNCHANGED args
    /\ UNCHANGED <<painter, original_color, queue, visited>>
    /\ UNCHANGED serverVars

CreateStored_cleared(storage, a) ==
    IF Image_new_raises(Get(a.width, 200), Get(a.height, 200))
    THEN [k \in DOMAIN storage \ {Get(a.canvas_id, "default")} |-> storage[k]]
    ELSE Store(storage, Get(a.canvas_id, "default"),
               GamePainter(Get(a.width, 200), Get(a.height, 200),
                           Get(a.bg_color, <<0, 0, 0, 0>>)))

\* painter = GamePainter(width, height, bg_color); canvas_storage[canvas_id] = painter:
\* the registry after the two statements, the first of which may raise.
CreateStored(storage, a) ==
    IF Image_new_raises(Get(a.width, 200), Get(a.height, 200))
    THEN storage
    ELSE Store(storage, Get(a.canvas_id, "default"),
               GamePainter(Get(a.width, 200), Get(a.height, 200),
                           Get(a.bg_color, <<0, 0, 0, 0>>)))

\* A pen branch raises before it draws: pen_rect on a missing number.
ActRaises(call) == call.tool = "pen_rect" /\ BoxArgsMissing(call.arguments)

\* The looked-up canvas after the body of a pen branch that does not raise.
Acted(p, call) ==
    LET a == call.arguments
    IN  CASE call.tool = "pen_rect" ->
                pen_rect(p, a.x[1], a.y[1], a.width[1], a.height[1],
                         IF Truthy(a.fill_color) THEN a.fill_color[1] ELSE None,
                         IF Truthy(a.border_color) THEN a.border_color[1]
                         ELSE <<0, 0, 0, 255>>,
                         Get(a.border_width, 2))
          [] call.tool = "pen_draw_preset" -> PresetDrawn(p, a)
          [] OTHER ->
                save(p, get_output_path(Get(a.filename, <<"canvas", ".png">>), a.output_dir),
                     "ok").painter

\* The answer of a branch that has run to its return or to the except clause.
Answer(call, raised, io_ok) ==
    CASE raised -> TextResult("error")
      [] call.tool = "pen_create_canvas" -> TextResult("created")
      [] call.tool = "pen_save" -> SaveResult("saved", io_ok)
      [] OTHER -> ImageResult("drawn")

\* The body of the branch up to its return: build and store the canvas, or draw on or
\* save the canvas object that was looked up.
HandlerAct(t, io_ok) ==
    LET call == args.calls[t]
        canvas_id == CanvasIdOf(call)
    IN  /\ CanRun(t)
        /\ pc.at[t] \in {"ready", "checked"}
        /\ IF call.tool = "pen_create_canvas"
           THEN /\ pc.at[t] = "ready"
                /\ canvas_storage' = CreateStored(canvas_storage, call.arguments)
                /\ LET raised == Image_new_raises(Get(call.arguments.width, 200),
                                                  Get(call.arguments.height, 200))
                   IN  args' = [args EXCEPT
                          !.result[t] = Answer(call, raised, io_ok),
                          !.stale = IF raised THEN @
                                    ELSE @ \cup {u \in Tasks \ {t} :
                                                   /\ pc.at[u] = "checked"
                                                   /\ CanvasIdOf(args.calls[u]) = canvas_id}]
           ELSE /\ pc.at[t] = "checked"
                /\ canvas_storage' =
                      IF ActRaises(call) \/ t \in args.stale THEN canvas_storage
                      ELSE [canvas_storage EXCEPT ![canvas_id] = Acted(@, call)]
                /\ args' = [args EXCEPT !.result[t] = Answer(call, ActRaises(call), io_ok)]
        /\ pc' = Moved(t, "answered")
        /\ UNCHANGED <<response, ndraws>>
        /\ UNCHANGED <<painter, original_color, queue, visited>>

\* return [...]: the coroutine ends and the answer goes out.
HandlerReturn(t) ==
    /\ CanRun(t)
    /\ pc.at[t] = "answered"
    /\ response' = args.result[t]
    /\ pc' = Moved(t, "idle")
    /\ args' = [args EXCEPT !.served = Append(@, args.calls[t]), !.stale = @ \ {t}]
    /\ UNCHANGED <<canvas_storage, ndraws>>
    /\ UNCHANGED <<painter, original_color, queue, visited>>

InitLoop ==
    /\ InitServer
    /\ painter = GamePainter(0, 0, TRANSPARENT)
    /\ pc = [at |-> [t \in Tasks |-> "idle"], running |-> "none"]
    /\ args = [calls |-> [t \in Tasks |-> << >>], result |-> [t \in Tasks |-> << >>],
               stale |-> {}, served |-> << >>]
    /\ original_color = None
    /\ queue = << >>
    /\ visited = {}

NextLoop ==
    \/ \E t \in Tasks, call \in LoopCalls : Arrive(t, call)
    \/ \E t \in Tasks : HandlerCheck(t)
    \/ \E t \in Tasks, io_ok \in BOOLEAN : HandlerAct(t, io_ok)
    \/ \E t \in Tasks : HandlerReturn(t)

SpecLoop == InitLoop /\ [][NextLoop]_vars


---------------------------------------------------------------------------
(* pen_lines and pen_bezier together, on the inputs of SpecLines and SpecBezier *)

SpecStroke == (InitLines \/ InitBezier) /\ [][DrawLines \/ DrawBezier]_vars


---------------------------------------------------------------------------
(* The shapes that take an optional width and height, together: draw_progress_bar,    *)
(* draw_health_bar and draw_rounded_rect on the inputs of SpecBar, SpecHealth and     *)
(* SpecGradient; the composites draw_button, draw_arrow, draw_shield, draw_icon_slot,  *)
(* draw_minimap_frame, draw_dialog_box and draw_tooltip on an 8 x 6 canvas with a     *)
(* width and height omitted, 0, positive and negative; and create_button and          *)
(* create_icon, which call them on a canvas of their own                              *)

\* The font loads and the text measures 6 x 8, or the default font is used and textbbox
\* raises.
TextEnvs == {<<TRUE, <<0, 0, 6, 8>>>>, <<FALSE, << >>>>}

CompositeVariants ==
    {[shape |-> "draw_button", style |-> style, direction |-> "", flag |-> FALSE,
      text |-> text, loaded |-> env[1], bbox |-> env[2]] :
        style \in {"FLAT", "GRADIENT", "GLOSSY", "OUTLINE", "PIXEL", "flat"},
        text \in {"", "OK"}, env \in TextEnvs}
    \cup {[shape |-> "draw_arrow", style |-> style, direction |-> direction,
           flag |-> FALSE, text |-> "", loaded |-> TRUE, bbox |-> << >>] :
             style \in {"solid", "outline", "chevron"},
             direction \in {"up", "down", "left", "right"}}
    \cup {[shape |-> "draw_shield", style |-> "", direction |-> "", flag |-> FALSE,
           text |-> "", loaded |-> TRUE, bbox |-> << >>]}
    \cup {[shape |-> "draw_icon_slot", style |-> rarity, direction |-> "", flag |-> flag,
           text |-> "", loaded |-> TRUE, bbox |-> << >>] :
             rarity \in {"common", "epic", "mythic"}, flag \in BOOLEAN}
    \cup {[shape |-> "draw_minimap_frame", style |-> shape, direction |-> "",
           flag |-> FALSE, text |-> "", loaded |-> TRUE, bbox |-> << >>] :
             shape \in {"circle", "square", "hexagon"}}
    \cup {[shape |-> "draw_dialog_box", style |-> style, direction |-> "", flag |-> flag,
           text |-> "", loaded |-> TRUE, bbox |-> << >>] :
             style \in {"modern", "pixel"}, flag \in BOOLEAN}
    \cup {[shape |-> "draw_tooltip", style |-> rarity, direction |-> "", flag |-> FALSE,
           text |-> "T", loaded |-> loaded, bbox |-> << >>] :
             rarity \in {"rare", "mythic"}, loaded \in BOOLEAN}

IconKwargs ==
    {<< >>, [size |-> <<10>>], [radius |-> <<10>>], [width |-> <<5>>],
     [fill_color |-> None], [x |-> 1]}

InitComposite ==
    /\ InitServer
    /\ \/ /\ pc = "composite"
          /\ painter = pen_rect(GamePainter(8, 6, TRANSPARENT), 0, 0, 4, 1, BLUE, None, 0)
          /\ \E v \in CompositeVariants, x \in {0, 1},
                width \in {None, <<0>>, <<5>>, <<-2>>}, height \in {None, <<0>>, <<3>>} :
                  args = [shape |-> v.shape, x |-> x, y |-> 0, width |-> width,
                          height |-> height, style |-> v.style, direction |-> v.direction,
                          flag |-> v.flag, text |-> v.text, loaded |-> v.loaded,
                          bbox |-> v.bbox, before |-> painter]
       \/ /\ pc = "create_button"
          /\ painter = GamePainter(0, 0, TRANSPARENT)
          /\ \E width \in {-1, 0, 120}, height \in {0, 40},
                text \in {"", "\\u6309\\u94ae"},
                style \in {"gradient", "flat", "glossy", "outline", "pixel", "FLAT"},
                color \in {"blue", "red", "teal"}, env \in TextEnvs :
                  args = [width |-> width, height |-> height, text |-> text,
                          style |-> style, color |-> color, loaded |-> env[1],
                          bbox |-> env[2]]
       \/ /\ pc = "create_icon"
          /\ painter = GamePainter(0, 0, TRANSPARENT)
          /\ \E size \in {-1, 0, 64},
                icon_type \in {"star", "coin", "gem", "heart", "shield", "arrow", "moon"},
                kwargs \in IconKwargs, env \in TextEnvs :
                  args = [size |-> size, icon_type |-> icon_type, kwargs |-> kwargs,
                          loaded |-> env[1], bbox |-> env[2]]
    /\ original_color = None
    /\ queue = << >>
    /\ visited = {}

NextComposite ==
    \/ DrawComposite
    \/ CreateButton
    \/ CreateIcon

SpecSized ==
    /\ InitBar \/ InitHealth \/ InitGradient \/ InitComposite
    /\ [][NextBar \/ NextHealth \/ NextGradient \/ NextComposite]_vars


---------------------------------------------------------------------------
(* _binomial explored: n up to MaxN, k from below 0 to above n *)

MaxN == 8

InitBinomial ==
    /\ InitServer
    /\ painter = GamePainter(0, 0, TRANSPARENT)
    /\ \E n \in 0 .. MaxN, k \in -1 .. MaxN + 1 : args = [n |-> n, k |-> k, result |-> None]
    /\ pc = "binomial"
    /\ original_color = None
    /\ queue = << >>
    /\ visited = {}

NextBinomial == ApplyBinomial

SpecBinomial == InitBinomial /\ [][NextBinomial]_vars


---------------------------------------------------------------------------
(* Icon buttons explored: every button, every background style, with and without a    *)
(* background colour; sizes include a negative one (int() rounds toward zero) and 360, *)
(* where int(180 * 0.35) is 62; and create_control_button with names in and out of    *)
(* its table, sizes down to -1 and keywords the methods have and do not have           *)

IconSizes == {<< >>, <<9>>, <<16>>, <<-6>>, <<360>>}

ControlKwargs ==
    {<< >>, [style |-> "square"], [bg_color |-> BLUE, style |-> "circle"],
     [icon_color |-> RED3], [bg_color |-> None], [radius |-> 3], [size |-> <<10>>]}

InitIcon ==
    /\ InitServer
    /\ \/ /\ pc = "icon"
          /\ painter = GamePainter(24, 20, TRANSPARENT)
          /\ \E button \in ButtonNames, center_x \in {<< >>, <<10>>}, size \in IconSizes,
                bg_color \in {None, RED3, BLUE}, icon_color \in {BLACK, RED3},
                style \in {"circle", "square", "none"} :
                  args = [button |-> button, center_x |-> center_x, center_y |-> << >>,
                          size |-> size, bg_color |-> bg_color, icon_color |-> icon_color,
                          style |-> style]
       \/ /\ pc = "create_control"
          /\ painter = GamePainter(0, 0, TRANSPARENT)
          /\ \E size \in {-1, 0, 24, 48}, button_type \in ButtonNames \cup {"zzz"},
                kwargs \in ControlKwargs :
                  args = [size |-> size, button_type |-> button_type, kwargs |-> kwargs]
    /\ original_color = None
    /\ queue = << >>
    /\ visited = {}

NextIcon ==
    \/ DrawIconButton
    \/ CreateControlButton

SpecIcon == InitIcon /\ [][NextIcon]_vars


---------------------------------------------------------------------------
(* Properties of pen_fill (SpecFill, SpecFillFair) *)

Grid(p) == (0 .. p.width - 1) \X (0 .. p.height - 1)

PixelBefore(c) == getpixel(args.before.image, c[1], c[2])
PixelNow(c) == getpixel(painter.image, c[1], c[2])

\* The pixels whose colour differs from the one they had when pen_fill was called.
Changed == {c \in Grid(painter) : PixelNow(c) # PixelBefore(c)}

SeedInside ==
    /\ 0 <= args.x /\ args.x < args.before.width
    /\ 0 <= args.y /\ args.y < args.before.height

Target == IF Len(args.color) = 3 THEN args.color \o <<255>> ELSE args.color

Adjacent(c, d) ==
    \/ c[1] = d[1] /\ (c[2] = d[2] + 1 \/ d[2] = c[2] + 1)
    \/ c[2] = d[2] /\ (c[1] = d[1] + 1 \/ d[1] = c[1] + 1)

RECURSIVE Grow(_, _)
Grow(reached, same) ==
    LET more == reached \cup {d \in same : \E c \in reached : Adjacent(c, d)}
    IN  IF more = reached THEN reached ELSE Grow(more, same)

\* The 4-connected region of the seed: the pixels of the seed's original colour joined
\* to the seed by horizontal and vertical steps through pixels of that colour.
Region ==
    LET seed == <<args.x, args.y>>
        same == {c \in Grid(args.before) : PixelBefore(c) = PixelBefore(seed)}
    IN  Grow({seed}, same)

\* The putpixel calls pen_fill has issued so far.
FillWrites ==
    {k \in DOMAIN painter.image.ops : k > Len(args.before.image.ops)}

\* C6: one flood fill recolours at most `limit` pixels (the code's limit is FILL_LIMIT =
\* 100,000), whatever the canvas, seed and colour; when the seed's region is larger than
\* the limit the fill stops at exactly the limit, only region pixels were recoloured, the
\* rest of the region keeps its original colour, and the call has returned normally.
C6_FillCapped ==
    /\ Cardinality(Changed) <= args.limit
    /\ Cardinality(FillWrites) <= args.limit
    /\ (pc = "done" /\ SeedInside /\ PixelBefore(<<args.x, args.y>>) # Target
        /\ Cardinality(Region) > args.limit)
       => /\ Cardinality(Changed) = args.limit
          /\ Changed \subseteq Region
          /\ \A c \in Region \ Changed : PixelNow(c) = PixelBefore(<<args.x, args.y>>)

C6_Witness ==
    /\ pc = "done"
    /\ SeedInside
    /\ Cardinality(Region) > args.limit
    /\ Cardinality(Changed) = args.limit

\* C7: pen_fill terminates for every canvas, seed and colour, and no pixel is recoloured
\* twice: every putpixel lands on a pixel that had the original colour, is not yet in
\* visited, and no longer has the original colour afterwards.
RecolourOnce ==
    painter' # painter =>
        LET c == Head(queue)
        IN  /\ c \notin visited
            /\ getpixel(painter.image, c[1], c[2]) = original_color
            /\ getpixel(painter'.image, c[1], c[2]) # original_color
            /\ visited' = visited \cup {c}

C7_FillTerminates == <>(pc = "done") /\ [][RecolourOnce]_vars

C7_Witness == pc = "done" /\ Cardinality(visited) >= 2 /\ queue = << >>

\* C8: pen_fill changes no pixel when the seed pixel already has the normalised target
\* colour, and none when the seed lies outside [0, width) x [0, height), negative
\* coordinates included.
C8_FillNoOp ==
    (pc = "done" /\ (~SeedInside \/ PixelBefore(<<args.x, args.y>>) = Target))
        => Pixels(painter.image) = Pixels(args.before.image)

\* A negative seed that the pixel access accepted (it read the pixel at the far edge,
\* of another colour than the target) and that went through the loop.
C8_Witness ==
    /\ pc = "done"
    /\ args.x < 0
    /\ original_color # None
    /\ original_color # args.color

\* C9: for a seed inside the canvas whose region is smaller than the limit, pen_fill
\* recolours exactly the region: region pixels get the new colour, all others
\* (diagonal-only neighbours included) keep theirs.
C9_FillExactRegion ==
    (pc = "done" /\ SeedInside /\ Cardinality(Region) < args.limit)
        => \A c \in Grid(painter) :
              PixelNow(c) = IF c \in Region THEN Target ELSE PixelBefore(c)

\* An isolated seed with a diagonal neighbour of its colour: one pixel changed.
C9_Witness ==
    /\ pc = "done"
    /\ SeedInside
    /\ Cardinality(Region) = 1
    /\ Changed = {<<args.x, args.y>>}
    /\ \E c \in Grid(painter) :
          /\ c[1] # args.x /\ c[2] # args.y
          /\ PixelBefore(c) = PixelBefore(<<args.x, args.y>>)
          /\ PixelNow(c) = PixelBefore(c)


---------------------------------------------------------------------------
(* Properties of draw_progress_bar (SpecBar) *)

BarWidth == IF args.width = None \/ args.width = <<0>> THEN args.before.width
            ELSE args.width[1]

Clamped == IF args.progress > 100 THEN 100 ELSE IF args.progress < 0 THEN 0
           ELSE args.progress

\* The raster calls of the bar that start at the fill's corner (x+2, y+2) and at the
\* glow's corner (x+1, y+1).
CallsAt(dx, dy) ==
    {k \in DOMAIN painter.image.ops :
        painter.image.ops[k].xy[1] = <<args.x + dx, args.y + dy>>}

\* C10: draw_progress_bar clamps progress to [0, 100] before use: the bar drawn for
\* progress is the bar drawn for clamp(progress) (above 100 as 100, below 0 as 0), the
\* fill rectangle is int((w - 4) * clamp(progress) / 100) wide, and neither the fill nor
\* the glow rectangle is drawn when that width is 0.
C10_ProgressClamped ==
    pc = "done" =>
        LET fw == IntDiv((BarWidth - 4) * Clamped, 100)
        IN  /\ painter = CallProgressBar(args.before, [args EXCEPT !.progress = Clamped])
            /\ fw > 0 =>
                 /\ \E k \in CallsAt(2, 2) :
                       /\ CallsAt(2, 2) = {k}
                       /\ painter.image.ops[k].xy[2][1] = args.x + 2 + fw
                       /\ painter.image.ops[k].fill = args.fill_color
                 /\ Cardinality(CallsAt(1, 1)) = IF args.show_glow THEN 1 ELSE 0
            /\ fw <= 0 => CallsAt(2, 2) = {} /\ CallsAt(1, 1) = {}

\* progress = 150 drawn with a fill rectangle as wide as for 100.
C10_Witness ==
    /\ pc = "done"
    /\ args.progress = 150
    /\ args.width = <<150>>
    /\ \E k \in CallsAt(2, 2) : painter.image.ops[k].xy[2][1] = args.x + 2 + 146


---------------------------------------------------------------------------
(* Properties of the registry (Spec) *)

IdOf(a) == IF a.canvas_id = << >> THEN "default" ELSE a.canvas_id[1]

IsPrefix(u, v) == Len(u) <= Len(v) /\ SubSeq(v, 1, Len(u)) = u

\* C1: a successful pen_create_canvas(id, w, h, bg) leaves exactly one canvas under id,
\* of dimensions w x h and background bg, with nothing of the canvas it replaces drawn on
\* it; the other keys keep their canvases.
CreateReplaces(a) ==
    (response'.status = "created" /\ Tool_pen_create_canvas(a)) =>
        LET id == IdOf(a)
            w == IF a.width = << >> THEN 200 ELSE a.width[1]
            h == IF a.height = << >> THEN 200 ELSE a.height[1]
            bg == IF a.bg_color = << >> THEN <<0, 0, 0, 0>> ELSE a.bg_color[1]
        IN  /\ id \in DOMAIN canvas_storage'
            /\ canvas_storage'[id].width = w
            /\ canvas_storage'[id].height = h
            /\ canvas_storage'[id].image.size = <<w, h>>
            /\ canvas_storage'[id].image.bg = IF Len(bg) = 3 THEN bg \o <<255>> ELSE bg
            /\ canvas_storage'[id].image.ops = << >>
            /\ \A k \in DOMAIN canvas_storage \ {id} :
                  k \in DOMAIN canvas_storage' /\ canvas_storage'[k] = canvas_storage[k]

C1_CreateReplaces == [][\A a \in CreateArgs : CreateReplaces(a)]_vars

\* A canvas that was drawn on has been replaced by a blank one of the other size.
C1_Witness ==
    /\ DOMAIN canvas_storage = {"default"}
    /\ ndraws >= 1
    /\ canvas_storage["default"].image.size = <<2, 1>>
    /\ canvas_storage["default"].image.ops = << >>
    /\ response.status = "created"

\* Any of the eleven registry-routed tools called with the canvas id `id`.
PenCall(id) ==
    \/ \E a \in LineArgs : IdOf(a) = id /\ Tool_pen_line(a)
    \/ \E a \in LinesArgs : IdOf(a) = id /\ Tool_pen_lines(a)
    \/ \E a \in RectArgs : IdOf(a) = id /\ Tool_pen_rect(a)
    \/ \E a \in EllipseArgs : IdOf(a) = id /\ Tool_pen_ellipse(a)
    \/ \E a \in PolygonArgs : IdOf(a) = id /\ Tool_pen_polygon(a)
    \/ \E a \in ArcArgs : IdOf(a) = id /\ Tool_pen_arc(a)
    \/ \E a \in BezierArgs : IdOf(a) = id /\ Tool_pen_bezier(a)
    \/ \E a \in PointArgs : IdOf(a) = id /\ Tool_pen_point(a)
    \/ \E a \in TextArgs, loaded \in BOOLEAN : IdOf(a) = id /\ Tool_pen_text(a, loaded)
    \/ \E a \in SaveArgs, io_ok \in BOOLEAN : IdOf(a) = id /\ Tool_pen_save(a, io_ok)
    \/ \E a \in PresetArgs : IdOf(a) = id /\ Tool_pen_draw_preset(a)

\* C2: a registry-routed tool called with an id that is not a key answers with the single
\* text 'canvas does not exist', adds no key and changes no stored canvas.
C2_NotFound ==
    [][\A id \in {"default", "a"} :
          (id \notin DOMAIN canvas_storage /\ PenCall(id)) =>
              /\ response'.status = "not_found"
              /\ response'.content = <<"text">>
              /\ canvas_storage' = canvas_storage]_vars

\* The answer 'canvas does not exist' while another canvas, drawn on, is stored.
C2_Witness ==
    /\ response.status = "not_found"
    /\ \E id \in DOMAIN canvas_storage : Len(canvas_storage[id].image.ops) > 0

\* C3: pen_save on an existing id leaves the registry as it is: the id stays, with the
\* same dimensions and the same image, whether or not the write succeeds.
C3_SaveKeeps ==
    [][\A a \in SaveArgs, io_ok \in BOOLEAN :
          (response'.status \in {"saved", "error"} /\ Tool_pen_save(a, io_ok)) =>
              canvas_storage' = canvas_storage]_vars

\* A canvas that was drawn on has just been saved.
C3_Witness ==
    /\ response.status = "saved"
    /\ \E id \in DOMAIN canvas_storage : Len(canvas_storage[id].image.ops) > 0

\* C4: the set of registered ids never shrinks.
C4_NoEviction == [][DOMAIN canvas_storage \subseteq DOMAIN canvas_storage']_vars

C4_Witness ==
    /\ DOMAIN canvas_storage = {"default", "a"}
    /\ ndraws = MaxDraws
    /\ response.status = "created"

\* C5: every pen draw that finds its canvas works on one stored canvas: what was drawn
\* on it before stays, in order, and the new raster calls come after it; its size and
\* background are kept and no other canvas changes.  The canvas that changes is the one
\* under the id of the call (checked for the calls of DrawCall), and for pen_rect the one
\* call added is the rectangle of the arguments, so a later rectangle covers an earlier
\* one.
DrawCall(id) ==
    \/ \E a \in LineArgs : IdOf(a) = id /\ Tool_pen_line(a)
    \/ \E a \in LinesArgs : IdOf(a) = id /\ Tool_pen_lines(a)
    \/ \E a \in RectArgs : IdOf(a) = id /\ Tool_pen_rect(a)
    \/ \E a \in EllipseArgs : IdOf(a) = id /\ Tool_pen_ellipse(a)
    \/ \E a \in PolygonArgs : IdOf(a) = id /\ Tool_pen_polygon(a)
    \/ \E a \in ArcArgs : IdOf(a) = id /\ Tool_pen_arc(a)
    \/ \E a \in PointArgs : IdOf(a) = id /\ Tool_pen_point(a)
    \/ \E a \in TextArgs, loaded \in BOOLEAN : IdOf(a) = id /\ Tool_pen_text(a, loaded)

DrawAccumulates ==
    response'.status = "drawn" =>
        /\ DOMAIN canvas_storage' = DOMAIN canvas_storage
        /\ \E id \in DOMAIN canvas_storage :
              /\ canvas_storage'[id].width = canvas_storage[id].width
              /\ canvas_storage'[id].height = canvas_storage[id].height
              /\ canvas_storage'[id].image.size = canvas_storage[id].image.size
              /\ canvas_storage'[id].image.bg = canvas_storage[id].image.bg
              /\ IsPrefix(canvas_storage[id].image.ops, canvas_storage'[id].image.ops)
              /\ Len(canvas_storage'[id].image.ops) > Len(canvas_storage[id].image.ops)
              /\ \A k \in DOMAIN canvas_storage \ {id} :
                    canvas_storage'[k] = canvas_storage[k]

DrawOnNamed(id) ==
    (response'.status = "drawn" /\ id \in DOMAIN canvas_storage /\ DrawCall(id)) =>
        \A k \in DOMAIN canvas_storage \ {id} : canvas_storage'[k] = canvas_storage[k]

RectAppends(a) ==
    (response'.status = "drawn" /\ IdOf(a) \in DOMAIN canvas_storage /\ Tool_pen_rect(a)) =>
        canvas_storage'[IdOf(a)].image.ops =
            Append(canvas_storage[IdOf(a)].image.ops,
                   [op |-> "rectangle",
                    xy |-> <<<<a.x[1], a.y[1]>>,
                             <<a.x[1] + a.width[1] - 1, a.y[1] + a.height[1] - 1>>>>,
                    fill |-> IF a.fill_color = << >> THEN << >>
                             ELSE IF Len(a.fill_color[1]) = 3
                                  THEN a.fill_color[1] \o <<255>> ELSE a.fill_color[1],
                    outline |-> <<0, 0, 0, 255>>,
                    width |-> IF a.border_width = << >> THEN 2 ELSE a.border_width[1],
                    extra |-> << >>])

C5_DrawsAccumulate ==
    [][/\ DrawAccumulates
       /\ \A id \in {"default", "a"} : DrawOnNamed(id)
       /\ \A a \in RectArgs : RectAppends(a)]_vars

\* Two rectangles drawn one after the other on the same canvas: the second covers the
\* right pixel, the first still shows on the left one.
C5_Witness ==
    \E id \in DOMAIN canvas_storage :
        /\ Len(canvas_storage[id].image.ops) = 2
        /\ canvas_storage[id].image.ops[1].op = "rectangle"
        /\ canvas_storage[id].image.ops[2].op = "rectangle"
        /\ getpixel(canvas_storage[id].image, 0, 0) = RED
        /\ getpixel(canvas_storage[id].image, 1, 0) = BLUE

---------------------------------------------------------------------------
(* Properties of the health bar (SpecHealth) *)

\* The finished call drew a health bar, through create_progress_bar or directly.
HealthDone ==
    /\ pc = "done"
    /\ \/ "hp_percent" \in DOMAIN args
       \/ "bar_type" \in DOMAIN args /\ args.bar_type = "health"

ViaCreate == "bar_type" \in DOMAIN args

HealthX == IF ViaCreate THEN 0 ELSE args.x
HealthPercent == IF ViaCreate THEN args.progress ELSE args.hp_percent
HealthTrack ==
    IF ViaCreate THEN args.width
    ELSE IF args.width = None THEN 24 ELSE args.width[1]

\* The rectangle calls that start at the fill's corner (x+2, y+2).
HealthFillCalls ==
    {k \in DOMAIN painter.image.ops :
        /\ painter.image.ops[k].op = "rectangle"
        /\ painter.image.ops[k].xy[1] = <<HealthX + 2, 2>>}

\* C11 (as claimed): the health bar made by create_progress_bar clamps like the normal
\* bar: the image for progress equals the image for clamp(progress), and the fill
\* rectangle is between 0 and w - 4 wide, so it never passes the track.
C11_HealthClamped ==
    (HealthDone /\ ViaCreate) =>
        /\ \A k \in HealthFillCalls :
              /\ painter.image.ops[k].xy[2][1] - 2 >= 0
              /\ painter.image.ops[k].xy[2][1] - 2 <= args.width - 4
        /\ Pixels(painter.image)
             = Pixels(create_progress_bar(args.width, args.height, Clamped, "health").image)

\* C12: the fill colour of a health bar depends on hp_percent only, by strict
\* thresholds: green above 60, orange above 30 up to 60, red up to 30.
C12_HealthColour ==
    HealthDone =>
        \A k \in HealthFillCalls :
            painter.image.ops[k].fill =
                IF HealthPercent > 60 THEN <<50, 205, 50, 255>>
                ELSE IF HealthPercent > 30 THEN <<255, 165, 0, 255>>
                ELSE <<255, 50, 50, 255>>

\* A bar drawn directly at exactly 60 percent, with an orange fill.
C12_Witness ==
    /\ HealthDone
    /\ ~ViaCreate
    /\ HealthPercent = 60
    /\ \E k \in HealthFillCalls : painter.image.ops[k].fill = <<255, 165, 0, 255>>

---------------------------------------------------------------------------
(* Properties of pen_bezier (SpecBezier) *)

\* C13: for 2 to 4 control points and steps >= 1, pen_bezier strokes one polyline of
\* steps + 1 samples; the first sample is the first control point and the last sample
\* is the last control point.
C13_BezierEndpoints ==
    (pc = "done" /\ Len(args.points) \in 2 .. 4 /\ args.steps >= 1) =>
        /\ Len(painter.image.ops) = Len(args.before.image.ops) + 1
        /\ LET stroke == painter.image.ops[Len(painter.image.ops)]
           IN  /\ stroke.op = "line"
               /\ Len(stroke.xy) = args.steps + 1
               /\ stroke.xy[1] = args.points[1]
               /\ stroke.xy[Len(stroke.xy)] = args.points[Len(args.points)]

\* A cubic with four distinct corner points, three steps: two samples between the ends.
C13_Witness ==
    /\ pc = "done"
    /\ Len(args.points) = 4
    /\ args.steps = 3
    /\ args.points[1] # args.points[4]
    /\ Len(painter.image.ops) = 1
    /\ painter.image.ops[1].xy[2] # args.points[1]
    /\ painter.image.ops[1].xy[4] = args.points[4]

---------------------------------------------------------------------------
(* Properties of pen_lines (SpecLines) *)

\* C14: pen_lines on two or more points strokes, when closed, the given points followed
\* by a copy of the first (one more point, first equal to last) and, when not closed,
\* exactly the given points; the caller's list is the same after the call.
C14_LinesClosed ==
    (pc = "done" /\ Len(args.given) >= 2) =>
        /\ Len(painter.image.ops) = Len(args.before.image.ops) + 1
        /\ LET stroke == painter.image.ops[Len(painter.image.ops)]
           IN  /\ stroke.op = "line"
               /\ args.closed =>
                    /\ Len(stroke.xy) = Len(args.given) + 1
                    /\ SubSeq(stroke.xy, 1, Len(args.given)) = args.given
                    /\ stroke.xy[Len(stroke.xy)] = args.given[1]
               /\ ~args.closed => stroke.xy = args.given
        /\ args.points = args.given

\* A closed stroke through three distinct points: four points, the last is the first.
C14_Witness ==
    /\ pc = "done"
    /\ args.closed
    /\ args.given = <<<<0, 0>>, <<3, 0>>, <<3, 2>>>>
    /\ painter.image.ops[1].xy = <<<<0, 0>>, <<3, 0>>, <<3, 2>>, <<0, 0>>>>

---------------------------------------------------------------------------
(* Properties of _ensure_rgba (SpecColour) *)

\* C15: normalising a 3-component colour gives its three components and alpha 255,
\* normalising a 4-component colour gives it back, and normalising the result again
\* changes nothing.
C15_EnsureRgba ==
    /\ pc \in {"rgba_again", "done"} =>
          /\ Len(args.color) = 3 =>
                args.once = <<args.color[1], args.color[2], args.color[3], 255>>
          /\ Len(args.color) = 4 => args.once = args.color
    /\ pc = "done" => args.twice = args.once

\* A 3-component colour normalised twice.
C15_Witness ==
    /\ pc = "done"
    /\ args.color = <<255, 128, 0>>
    /\ args.once = <<255, 128, 0, 255>>
    /\ args.twice = <<255, 128, 0, 255>>

---------------------------------------------------------------------------
(* Properties of the colours that reach the raster layer (SpecPaint) *)

\* C16 (as claimed): every colour a drawing operation hands to the raster layer has
\* four components, whatever the caller gave.
C16_ColoursNormalised ==
    pc = "done" =>
        \A k \in DOMAIN painter.image.ops :
            /\ painter.image.ops[k].fill # None => Len(painter.image.ops[k].fill) = 4
            /\ painter.image.ops[k].outline # None
                  => Len(painter.image.ops[k].outline) = 4

---------------------------------------------------------------------------
(* Properties of one canvas over a sequence of calls (SpecCanvas) *)

\* C17: whatever is drawn, filled or serialised, the canvas keeps the width and height
\* given to the constructor, and so does its pixel buffer.
C17_SizeFixed ==
    /\ painter.width = args.width
    /\ painter.height = args.height
    /\ painter.image.size = <<args.width, args.height>>

\* A rectangle reaching outside the 2 x 1 canvas, a flood fill that painted, and a
\* save that returned, all done.
C17_Witness ==
    /\ pc = "canvas"
    /\ args.log = <<"draw", "fill", "serialise">>
    /\ args.out = <<<<"save", <<"", "a", ".png">>, "", "ok">>,
                    <<"abspath", <<"", "a", ".png">>>>>>
    /\ painter.image.size = <<2, 1>>
    /\ Len(painter.image.ops) >= 2
    /\ painter.image.ops[1].op = "rectangle"
    /\ painter.image.ops[1].xy[2] = <<4, 2>>

\* C18: a serialisation leaves the canvas as it is, and a serialisation that follows
\* another one by the same method, with no drawing in between, returns the same data.
C18_SerialiseReadOnly ==
    [][\A c \in SerialiseCalls :
          CanvasSerialise(c[1], c[2], c[3], c[4]) =>
              /\ painter' = painter
              /\ (args.out # None /\ args.out[1] = c) => args'.out = args.out]_vars

\* A canvas drawn on and then serialised twice by to_base64("PNG"): the second call has
\* returned the data of the drawn image.
C18_Witness ==
    /\ pc = "canvas"
    /\ args.log = <<"draw", "serialise", "serialise">>
    /\ args.repeated
    /\ args.out[1][1] = "to_base64"
    /\ args.out[2] = <<"base64", <<"bytes", "PNG", painter.image>>>>
    /\ Len(painter.image.ops) = 1

---------------------------------------------------------------------------
(* Properties of the gradients of draw_rounded_rect (SpecGradient) *)

GradientDone(direction) ==
    /\ pc = "done"
    /\ args.gradient = <<direction>>
    /\ args.gradient_end_color # None

\* The pixels of row r of the box that the call has painted.
VisibleInRow(r) ==
    {x \in 0 .. painter.width - 1 :
        /\ args.y + r < painter.height
        /\ Paints(painter.image.ops[Len(painter.image.ops)], x, args.y + r)}

ColourA == IF Len(args.fill_color) = 3 THEN args.fill_color \o <<255>> ELSE args.fill_color
ColourB == args.gradient_end_color

\* Each channel goes one way from row r to row r + 1: towards B, never back.
RowsMonotone(r) ==
    \A x \in VisibleInRow(r) \cap VisibleInRow(r + 1), k \in 1 .. 4 :
        LET here == getpixel(painter.image, x, args.y + r)[k]
            next == getpixel(painter.image, x, args.y + r + 1)[k]
        IN  IF ColourA[k] <= ColourB[k] THEN here <= next ELSE here >= next

\* C19 (as claimed): after a vertical gradient from A to B over height h >= 1, the painted
\* pixels of row 0 are A and those of row h - 1 are B, in all four channels, and every
\* channel changes monotonically from row to row.
C19_VerticalGradient ==
    GradientDone("vertical") =>
        LET h == IF args.height = <<0>> THEN args.before.height ELSE args.height[1]
        IN  /\ \A x \in VisibleInRow(0) : getpixel(painter.image, x, args.y) = ColourA
            /\ \A x \in VisibleInRow(h - 1) :
                  getpixel(painter.image, x, args.y + h - 1) = ColourB
            /\ \A r \in 0 .. h - 2 : RowsMonotone(r)

\* C20 (as claimed): a radial gradient with an end colour leaves every pixel of the
\* canvas as it was.
C20_RadialNoOp ==
    GradientDone("radial") => Pixels(painter.image) = Pixels(args.before.image)

---------------------------------------------------------------------------
(* Degenerate numeric parameters (SpecBezier; the health bar case under SpecHealth) *)

\* C21 (as claimed): a drawing operation given a degenerate number completes: pen_bezier
\* with steps = 0, and draw_health_bar with segments shown and segment_count = 0, never
\* end by raising.
C21_DegenerateTolerated ==
    /\ ("steps" \in DOMAIN args /\ args.steps = 0) => pc # "raised"
    /\ ("segment_count" \in DOMAIN args /\ args.segment_count = 0) => pc # "raised"

---------------------------------------------------------------------------
(* Atomicity of tool calls (SpecLoop) *)

\* Task t is between its registry check and the end of its call.
MidCall(t) == pc.at[t] \in {"checked", "answered"}

\* What one complete tool call makes of the registry.
Handled(storage, call) ==
    IF call.tool = "pen_create_canvas" THEN CreateStored(storage, call.arguments)
    ELSE IF CanvasIdOf(call) \notin DOMAIN storage \/ ActRaises(call) THEN storage
    ELSE [storage EXCEPT ![CanvasIdOf(call)] = Acted(@, call)]

\* The registry after the calls of a list, each run whole, one after the other.
RECURSIVE Serial(_, _)
Serial(storage, calls) ==
    IF calls = << >> THEN storage
    ELSE Serial(Handled(storage, Head(calls)), Tail(calls))

\* C22: while a task is between its registry check and the end of its call, no other
\* task moves and it alone changes the registry; and whenever no call is under way the
\* registry is what the served calls, run whole in the order served, make of an empty one.
C22_Atomic ==
    [][/\ \A t \in Tasks :
             (MidCall(t) =>
                /\ \A u \in Tasks \ {t} : pc'.at[u] = pc.at[u]
                /\ pc'.at[t] # pc.at[t])
       /\ ((\A t \in Tasks : pc'.at[t] \in {"idle", "ready"}) =>
                canvas_storage' = Serial(<< >>, args'.served))]_vars

\* A task has passed its check on a canvas while another request for the same canvas
\* waits for the loop.
C22_Witness ==
    \E t \in Tasks, u \in Tasks :
        /\ t # u
        /\ pc.at[t] = "checked"
        /\ pc.at[u] = "ready"
        /\ CanvasIdOf(args.calls[u]) = CanvasIdOf(args.calls[t])
        /\ args.calls[u].tool = "pen_create_canvas"

---------------------------------------------------------------------------
(* The glyph of an icon button (SpecIcon) *)

\* The buttons whose bg_color has a colour as its default and is always normalised.
ColouredButtons == {"close", "play", "pause", "plus", "minus", "check"}

\* A call of an icon button with these arguments draws a background shape first.
HasBackground(a) ==
    /\ a.style \in {"circle", "square"}
    /\ a.button \in ColouredButtons \/ a.bg_color # None

\* The calls of an icon button without its background shape.
Glyph(p, a) == IF HasBackground(a) THEN Tail(p.image.ops) ELSE p.image.ops

\* The arguments of the same button with the same centre, size and icon colour, on no
\* background.
PlainArgs ==
    [args EXCEPT !.style = "none",
                 !.bg_color = IF args.button \in ColouredButtons THEN RED3 ELSE None]

PlainButton == IconButton(GamePainter(24, 20, TRANSPARENT), PlainArgs)

\* C23 (as claimed): the glyph of an icon button, its geometry and its colours, is the
\* same whatever the background style and the background colour are.
C23_GlyphIndependent ==
    (pc = "done" /\ "button" \in DOMAIN args) =>
        Glyph(painter, args) = Glyph(PlainButton, PlainArgs)

---------------------------------------------------------------------------
(* Point lists too short to stroke (SpecStroke) *)

\* C24: pen_lines and pen_bezier given fewer than two points return normally and leave
\* the canvas as it was, whatever the other arguments are (closed, steps = 0).
C24_ShortListNoOp ==
    (pc \notin {"lines", "bezier"} /\ Len(args.points) < 2) =>
        /\ pc = "done"
        /\ painter = args.before

\* A closed polyline through no point at all, and a Bezier curve with one control point
\* and no step: both calls have returned.
C24_Witness ==
    /\ pc = "done"
    /\ \/ "closed" \in DOMAIN args /\ args.closed /\ args.points = << >>
       \/ "steps" \in DOMAIN args /\ args.steps = 0 /\ Len(args.points) = 1

---------------------------------------------------------------------------
(* Isolation of the canvases and failed creation (SpecLoop) *)

\* Task t takes a step of its call.
StepOf(t) == pc.at[t] # "idle" /\ pc'.at[t] # pc.at[t]

\* The canvas stored under id, if any, is the same before and after the step.
Kept(id) ==
    IF id \in DOMAIN canvas_storage
    THEN id \in DOMAIN canvas_storage' /\ canvas_storage'[id] = canvas_storage[id]
    ELSE id \notin DOMAIN canvas_storage'

\* C25: no step of a pen_create_canvas, pen_rect, pen_draw_preset or pen_save call naming
\* one id changes the canvas stored under another id, its pixels, its dimensions or its
\* presence.
C25_Isolated ==
    [][\A t \in Tasks :
          StepOf(t) =>
              \A id \in {"default", "a"} \ {CanvasIdOf(args.calls[t])} : Kept(id)]_vars

\* A preset has just been drawn on canvas "a" while the 2 x 1 canvas "default" is stored.
C25_Witness ==
    \E t \in Tasks :
        /\ pc.at[t] = "answered"
        /\ args.calls[t].tool = "pen_draw_preset"
        /\ CanvasIdOf(args.calls[t]) = "a"
        /\ args.result[t].status = "drawn"
        /\ DOMAIN canvas_storage = {"default", "a"}
        /\ canvas_storage["default"].image.size = <<2, 1>>
        /\ Len(canvas_storage["a"].image.ops) > 0

\* C26: a pen_create_canvas call whose canvas construction raises leaves the registry as
\* it was, the canvas stored under its id included, and is answered with the error text.
C26_FailedCreateKeeps ==
    [][\A t \in Tasks :
          (/\ StepOf(t)
           /\ args.calls[t].tool = "pen_create_canvas"
           /\ Image_new_raises(Get(args.calls[t].arguments.width, 200),
                               Get(args.calls[t].arguments.height, 200))) =>
              /\ canvas_storage' = canvas_storage
              /\ pc'.at[t] = "answered" => args'.result[t] = TextResult("error")]_vars

\* The creation of a canvas of width -1 under "default" has failed, and the canvas that
\* was there, with what was drawn on it, is still stored.
C26_Witness ==
    \E t \in Tasks :
        /\ pc.at[t] = "answered"
        /\ args.calls[t].tool = "pen_create_canvas"
        /\ args.calls[t].arguments.width = <<-1>>
        /\ args.result[t].status = "error"
        /\ "default" \in DOMAIN canvas_storage
        /\ Len(canvas_storage["default"].image.ops) > 0

---------------------------------------------------------------------------
(* The answers of call_tool (Spec) *)

\* C27: every call of call_tool is answered with a list of content items, never with an
\* exception: an unknown tool name, a missing canvas and any exception raised in a
\* branch (an invalid canvas size, a missing number, a failed write) give one text item.
C27_NeverRaises ==
    /\ response.status # "raised"
    /\ response.content \in {<<"text">>, <<"text", "image">>}
    /\ response.status \in {"unknown_tool", "error", "not_found"} =>
          response.content = <<"text">>

\* A call has been answered with the error text while a drawn-on canvas is stored.
C27_Witness ==
    /\ response = TextResult("error")
    /\ \E id \in DOMAIN canvas_storage : Len(canvas_storage[id].image.ops) > 0

---------------------------------------------------------------------------
(* A width or height of 0 (SpecSized) *)

\* The finished call, made again on the canvas as it was with other arguments.
ShapeCall(a) ==
    CASE "shape" \in DOMAIN a -> Composite(a.before, a)
      [] "show_glow" \in DOMAIN a -> CallProgressBar(a.before, a)
      [] "hp_percent" \in DOMAIN a ->
            draw_health_bar(a.before, a.x, a.y, a.width, a.height, a.hp_percent,
                            a.show_segments, a.segment_count)
      [] OTHER ->
            draw_rounded_rect(a.before, a.x, a.y, a.width, a.height, a.radius,
                              a.fill_color, a.border_color, a.border_width, a.gradient,
                              a.gradient_end_color)

ZeroSized == "before" \in DOMAIN args /\ (args.width = <<0>> \/ args.height = <<0>>)

Omitted(v) == IF v = <<0>> THEN None ELSE v

\* The calls that draw the box from (x, y) to (x + w - 1, y + h - 1) itself: the three
\* bars and rectangles, and of the composites the button in a style of ButtonStyle, the
\* icon slot, the dialog box and the tooltip (the arrow, the shield and the minimap frame
\* draw inside the box).
Boxed ==
    "shape" \in DOMAIN args =>
        \/ args.shape \in {"draw_icon_slot", "draw_dialog_box", "draw_tooltip"}
        \/ /\ args.shape = "draw_button"
           /\ args.style \in {"FLAT", "GRADIENT", "GLOSSY", "OUTLINE", "PIXEL"}

\* C28: draw_progress_bar, draw_health_bar, draw_rounded_rect, draw_button and the other
\* composites given a width or height of 0 draw what they draw when it is omitted, a
\* shape of the canvas's full width or height: where the call draws its box, a raster
\* call reaches the canvas's last column or row.
C28_ZeroAsOmitted ==
    (pc = "done" /\ ZeroSized) =>
        /\ painter = ShapeCall([args EXCEPT !.width = Omitted(@), !.height = Omitted(@)])
        /\ Boxed =>
              \E k \in DOMAIN painter.image.ops :
                  /\ k > Len(args.before.image.ops)
                  /\ painter.image.ops[k].op \in {"rectangle", "rounded_rectangle", "paste"}
                  /\ args.width = <<0>> =>
                        painter.image.ops[k].xy[2][1] = args.x + args.before.width - 1
                  /\ args.height = <<0>> =>
                        painter.image.ops[k].xy[2][2] = args.y + args.before.height - 1

\* A rounded rectangle asked for with width 0 on the 4 pixel wide canvas is 4 wide, and
\* a progress bar asked for with width 0 on the 200 pixel wide canvas is 200 wide.
C28_Witness ==
    /\ pc = "done"
    /\ args.width = <<0>>
    /\ \/ /\ "gradient" \in DOMAIN args
          /\ painter.image.ops[Len(painter.image.ops)].xy[2][1] = 3
       \/ /\ "show_glow" \in DOMAIN args
          /\ painter.image.ops[Len(args.before.image.ops) + 1].xy[2][1] = 199

---------------------------------------------------------------------------
(* The two paths of draw_rounded_rect (SpecGradient) *)

LastCall == painter.image.ops[Len(painter.image.ops)]

RoundedRectWith(a) ==
    draw_rounded_rect(a.before, a.x, a.y, a.width, a.height, a.radius, a.fill_color,
                      a.border_color, a.border_width, a.gradient, a.gradient_end_color)

\* C29: a draw_rounded_rect call that returns pastes a gradient exactly when a direction
\* and an end colour are both given, and then draws what it draws without any border; in every other case
\* it draws the plain rounded rectangle with the fill colour and the border asked for,
\* as if neither direction nor end colour had been given.
C29_GradientPath ==
    (pc = "done" /\ "gradient" \in DOMAIN args) =>
        IF args.gradient # None /\ args.gradient_end_color # None
        THEN /\ LastCall.op = "paste"
             /\ painter = RoundedRectWith([args EXCEPT !.border_color = None,
                                                       !.border_width = 0])
        ELSE /\ LastCall.op = "rounded_rectangle"
             /\ LastCall.outline = args.border_color
             /\ LastCall.width = args.border_width
             /\ painter = RoundedRectWith([args EXCEPT !.gradient = None,
                                                       !.gradient_end_color = None])

\* A direction without an end colour, with a border: the plain bordered rectangle; and a
\* full gradient with a border asked for: the paste.
C29_Witness ==
    /\ pc = "done"
    /\ "gradient" \in DOMAIN args
    /\ args.border_color # None
    /\ \/ /\ args.gradient = <<"vertical">>
          /\ args.gradient_end_color = None
          /\ LastCall.op = "rounded_rectangle"
          /\ LastCall.outline = BLACK
       \/ /\ args.gradient = <<"horizontal">>
          /\ args.gradient_end_color # None
          /\ LastCall.op = "paste"

---------------------------------------------------------------------------
(* Properties of _binomial (SpecBinomial) *)

\* The binomial coefficient by Pascal's rule.
RECURSIVE Pascal(_, _)
Pascal(n, k) ==
    IF k < 0 \/ k > n THEN 0
    ELSE IF n = 0 THEN 1
    ELSE Pascal(n - 1, k - 1) + Pascal(n - 1, k)

\* C30: _binomial(n, k) is the binomial coefficient for 0 <= k <= n and 0 outside; it
\* equals _binomial(n, n - k); and at every step of the running product the division by
\* i + 1 leaves no remainder, the product after i steps being C(n, i).
C30_Binomial ==
    pc = "done" =>
        /\ args.result = Pascal(args.n, args.k)
        /\ args.result = _binomial(args.n, args.n - args.k)
        /\ (args.k < 0 \/ args.k > args.n) => args.result = 0
        /\ (0 < args.k /\ args.k < args.n) =>
              \A i \in 0 .. Min(args.k, args.n - args.k) - 1 :
                 /\ BinomialLoop(1, args.n, 0, i) = Pascal(args.n, i)
                 /\ (BinomialLoop(1, args.n, 0, i) * (args.n - i)) % (i + 1) = 0

\* C(8, 4) = 70, reached by four steps of the running product.
C30_Witness ==
    /\ pc = "done"
    /\ args.n = 8
    /\ args.k = 4
    /\ args.result = 70

====
